---- MODULE Spec2Model ----
(***************************************************************************)
(* PayerHub orchestration core: the document pipeline                      *)
(* (src/src/orchestrator.py), the privacy manager with its consent store   *)
(* and audit log (src/src/privacy_layer/privacy_manager.py) and the Kafka  *)
(* event handler (src/src/event_middleware/kafka_handler.py).              *)
(*                                                                         *)
(* The specifications share the variables:                                 *)
(*   Spec         process_document runs on one orchestrator                *)
(*   SpecCancel   the same, with tasks that are cancelled                  *)
(*   SpecGate     the privacy manager's operations called directly         *)
(*   SpecConsent  the consent store: create, revoke and check_consent      *)
(*   SpecPublish  publish_event and the producer's sends                   *)
(*   SpecConsume  the consumer loop of consume_events                      *)
(*   SpecExit     the consumer loop with its other ways out                *)
(*   SpecPipeline the pipeline handlers on the consumer loop               *)
(*   SpecCascade  the events the pipeline handlers set off                 *)
(*   SpecConcurrent  two process_document runs in flight at once           *)
(*   SpecAudit    the audit log under every operation of the manager       *)
(*   SpecMask     mask_phi_data on a record                                *)
(*   SpecRevoke   a run at its privacy check while consents change         *)
(***************************************************************************)
EXTENDS Integers, Sequences, FiniteSets, TLC

\* ------------------------------------------------------------------ bounds
MaxRuns == 1
MaxBrokerFailures == 1
MaxTime == 2
MaxAudit == 2
MaxConsents == 1
MaxRecords == 2
MaxStream == 3
MaxHandlers == 2
MaxCalls == 2
MaxCascade == 7

Runs == 1..MaxRuns
Times == 0..MaxTime

\* Python's None
None == <<>>

\* ------------------------------------------------------------- data model
\* EventType(Enum): the values of the members
EventType ==
  {"document.received", "ocr.completed", "entity.extracted", "anomaly.detected",
   "fhir.converted", "privacy.checked", "hub.updated", "error.occurred"}

\* ConsentStatus(Enum) and DataAccessLevel(Enum): the values of the members
ConsentStatus == {"active", "revoked", "expired", "pending"}
DataAccessLevel == {"full", "limited", "none"}

\* the stage names, in pipeline order
all_steps ==
  <<"ocr", "entity_extraction", "anomaly_detection", "fhir_conversion",
    "privacy_check", "hub_update">>

\* what the collaborators and callers can hand to the core
FileExts == {".pdf", ".txt"}
SupportedExts == {".pdf", ".jpg", ".jpeg", ".png", ".tiff"}
AnomalyResults ==
  {[is_anomaly |-> FALSE, anomaly_type |-> "NONE"],
   [is_anomaly |-> TRUE, anomaly_type |-> "INCOMPLETE_DATA"],
   [is_anomaly |-> TRUE, anomaly_type |-> "ML_DETECTED_ANOMALY"]}
\* the correlation_id argument: None, the empty string and an id
EmptyStr == <<"">>
CallerCorrelationIds == {None, EmptyStr, <<"caller", 1>>}
BrokerOutcomes == {"ack", "error"}
Patient == "PAT1"
Organization == "ORG1"
User == "USER1"
Purposes == {"treatment"}
StorePurposes == {"treatment", "payment"}
GrantedScopes == {{"full_access"}, {"limited_access"}}
RequestedScopes == {{"full_access"}, {"limited_access"}, {"full_access", "limited_access"}}
GateScopes == {{}, {"full_access"}, {"limited_access"}}
Durations == {1}

VARIABLES
  runs,        \* run -> the local state of one process_document call
  sent,        \* run -> the publish_event calls the run made, in order
  consents,    \* the consents table, in insertion order
  audit_logs,  \* the audit_logs table, in insertion order
  now,         \* the clock that datetime.now() reads
  last_check,  \* the last check_access call made directly on the privacy manager
  last_consent, \* the last check_consent call made directly on the privacy manager
  stream,      \* the messages of the subscribed topics, in the order consumed
  consumer,    \* the handler registry and the locals of consume_events
  dead_letter, \* the values delivered to the dead-letter topic
  transport,   \* the publish_event call in progress and the producer's sends for it
  last_append, \* the last create_audit_log call made directly on the privacy manager
  masking      \* the mask_phi_data call: its arguments and what it returned

vars ==
  <<runs, sent, consents, audit_logs, now, last_check, last_consent, stream, consumer,
    dead_letter, transport, last_append, masking>>

\* ------------------------------------------------------ the Kafka producer

\* the value_serializer of _create_producer, json.dumps, on the dict that
\* _send_to_dead_letter_queue sends: dataclasses.asdict leaves the Event's
\* event_type the EventType member it is, and json.dumps raises TypeError on
\* an Enum member
JsonSerializable(dlq_event) == dlq_event.original_event.event_type[1] # "EventType"

\* publish_event with the broker's error passed on to the caller
publish_event_Reraises(log, event_type, data, source, correlation_id, partition_key, broker) ==
  [raised |-> (broker # "ack"),
   ret |-> (broker = "ack"),
   log |-> Append(log, [event_id |-> Len(log) + 1, event_type |-> event_type,
                        source |-> source, data |-> data,
                        correlation_id |-> correlation_id,
                        partition_key |-> partition_key, acked |-> (broker = "ack")])]

\* publish_event with the newest send put in front of the earlier ones
publish_event_Prepends(log, event_type, data, source, correlation_id, partition_key, broker) ==
  [raised |-> FALSE,
   ret |-> (broker = "ack"),
   log |-> <<[event_id |-> Len(log) + 1, event_type |-> event_type,
              source |-> source, data |-> data,
              correlation_id |-> correlation_id,
              partition_key |-> partition_key, acked |-> (broker = "ack")]>> \o log]

\* KafkaEventHandler.publish_event: build the event, send it, wait for the
\* acknowledgment. `log` is the sequence of sends so far, `broker` what the
\* broker does with this one. Every exception is caught: the call returns a bool.
publish_event(log, event_type, data, source, correlation_id, partition_key, broker) ==
  LET event == [event_id |-> Len(log) + 1,
                event_type |-> event_type,
                source |-> source,
                data |-> data,
                correlation_id |-> correlation_id,
                partition_key |-> partition_key,
                acked |-> (broker = "ack")]
  IN [raised |-> FALSE,
      ret |-> (broker = "ack"),
      log |-> Append(log, event)]

\* _create_producer: retries=3, and the timeout of future.get in publish_event,
\* in seconds
retries == 3
ack_timeout == 10

\* how long the broker can take to answer one send, in seconds
AnswerTimes == {1, 2, 4, 11}

\* the producer resending a record however often it failed
can_retry_Always(attempts, retriable) == retriable

\* the producer's sender: a record whose send failed is sent again when the
\* error is transient and fewer than `retries` resends were made. `attempts`
\* counts the sends made, the first one included.
can_retry(attempts, retriable) == retriable /\ attempts - 1 < retries

\* no publish_event call is in progress
NoTransport ==
  [pc |-> "idle", calls |-> 0, attempts |-> 0, elapsed |-> 0, outcome |-> "none",
   raised |-> FALSE, ret |-> FALSE, log |-> <<>>]

\* ------------------------------------------------------ the Kafka consumer

\* what the topics can hold: events of two types, a message of a type that
\* EventType does not have and a message with a key missing
ConsumedTypes == {"ocr.completed", "entity.extracted"}
MessageKinds ==
  {[event_type |-> t, complete |-> TRUE] : t \in ConsumedTypes} \cup
  {[event_type |-> "unknown.type", complete |-> TRUE],
   [event_type |-> "ocr.completed", complete |-> FALSE]}
Handlers == {"h1", "h2"}

\* the handler after __init__, before consume_events is called
NewConsumer ==
  [pc |-> "idle", event_handlers |-> [t \in EventType |-> <<>>], max_messages |-> 0,
   next |-> 1, message_count |-> 0, dispatched |-> <<>>, open |-> FALSE]

\* consume_events lines 219-230: EventType(...) raises on an unknown value and
\* event_dict[...] on a missing key
Parses(message) == message.event_type \in EventType /\ message.complete

\* the Event built from a message: event_type is the EventType member
ParsedEvent(message) ==
  [event_id |-> message.event_id,
   event_type |-> <<"EventType", message.event_type>>,
   source |-> "producer",
   correlation_id |-> None]

\* _send_to_dead_letter_queue without its try: the error of the send goes up
send_to_dead_letter_queue_Raises(dl, event, error, t, delivered) ==
  LET dlq_event == [original_event |-> event, error |-> error, timestamp |-> t]
  IN IF JsonSerializable(dlq_event) /\ delivered
     THEN [raised |-> FALSE, dead_letter |-> Append(dl, dlq_event)]
     ELSE [raised |-> TRUE, dead_letter |-> dl]

\* KafkaEventHandler._send_to_dead_letter_queue: producer.send serializes the
\* value before it queues it; every exception is caught and logged. `delivered`
\* says whether the broker gets a value that was queued.
send_to_dead_letter_queue(dl, event, error, t, delivered) ==
  LET dlq_event == [original_event |-> event, error |-> error, timestamp |-> t]
  IN IF JsonSerializable(dlq_event) /\ delivered
     THEN [raised |-> FALSE, dead_letter |-> Append(dl, dlq_event)]
     ELSE [raised |-> FALSE, dead_letter |-> dl]

\* the handlers called from the last registered to the first
RECURSIVE CallHandlers_Backwards(_, _, _, _, _, _, _)
CallHandlers_Backwards(event, hs, k, throws, t, delivered, acc) ==
  IF k > Len(hs) \/ acc.raised THEN acc
  ELSE LET at == Len(hs) + 1 - k
           called == Append(acc.dispatched,
                            [msg |-> event.event_id, handler |-> hs[at], threw |-> throws[at]])
           dlq == send_to_dead_letter_queue(acc.dead_letter, event, "handler error",
                                            t, delivered)
       IN IF throws[at]
          THEN CallHandlers_Backwards(event, hs, k + 1, throws, t, delivered,
                                      [dispatched |-> called, dead_letter |-> dlq.dead_letter,
                                       raised |-> dlq.raised])
          ELSE CallHandlers_Backwards(event, hs, k + 1, throws, t, delivered,
                                      [acc EXCEPT !.dispatched = called])

\* consume_events lines 238-244: the handlers of the event's type, in the order
\* registered; an exception of a handler is logged and sent to the dead-letter
\* queue. throws[k] says whether the k-th handler throws.
RECURSIVE CallHandlers(_, _, _, _, _, _, _)
CallHandlers(event, hs, k, throws, t, delivered, acc) ==
  IF k > Len(hs) \/ acc.raised THEN acc
  ELSE LET called == Append(acc.dispatched,
                            [msg |-> event.event_id, handler |-> hs[k], threw |-> throws[k]])
           dlq == send_to_dead_letter_queue(acc.dead_letter, event, "handler error",
                                            t, delivered)
       IN IF throws[k]
          THEN CallHandlers(event, hs, k + 1, throws, t, delivered,
                            [dispatched |-> called, dead_letter |-> dlq.dead_letter,
                             raised |-> dlq.raised])
          ELSE CallHandlers(event, hs, k + 1, throws, t, delivered,
                            [acc EXCEPT !.dispatched = called])

\* consume_events lines 246-249 and 257-258: the message is counted, and
\* max_messages ends the loop; the finally closes the consumer
message_done(c) ==
  LET count == c.message_count + 1
      break == c.max_messages # 0 /\ count >= c.max_messages
  IN [c EXCEPT !.next = @ + 1,
               !.message_count = count,
               !.pc = IF break THEN "closed" ELSE "running",
               !.open = IF break THEN FALSE ELSE @]

\* a message that failed counted like one that was handled
message_failed_Counts(c) == message_done(c)

\* consume_events lines 251-253: the message is logged and the loop goes on
message_failed(c) == [c EXCEPT !.next = @ + 1]

\* ---------------------------------------------------- the pipeline handlers

\* the handlers that setup_pipeline_handlers registers, by event type
pipeline_handlers ==
  [t \in EventType |->
     CASE t = "ocr.completed" -> <<"handle_ocr_completed">>
       [] t = "entity.extracted" -> <<"handle_entity_extracted">>
       [] t = "anomaly.detected" -> <<"handle_anomaly_detected">>
       [] t = "fhir.converted" -> <<"handle_fhir_converted">>
       [] t = "privacy.checked" -> <<"handle_privacy_checked">>
       [] OTHER -> <<>>]

\* the data of the events the pipeline handlers are given
PipelineData ==
  {[document_id |-> "DOC123", is_anomaly |-> a, access_allowed |-> ~a] : a \in BOOLEAN}

\* the event types that have a pipeline handler
PipelineTypes == {t \in EventType : pipeline_handlers[t] # <<>>}

\* the Event built from a message of the pipeline
PipelineEvent(message) ==
  [event_id |-> message.event_id,
   event_type |-> <<"EventType", message.event_type>>,
   source |-> "producer",
   data |-> message.data,
   correlation_id |-> message.correlation_id]

\* event.data.get(key), and whether it is a true value
Get(data, key) == IF key \in DOMAIN data THEN data[key] ELSE None
Truthy(data, key) == key \in DOMAIN data /\ data[key] = TRUE

\* the data a pipeline handler publishes: handle_ocr_completed builds a dict
\* of its own, the others hand on event.data
DownstreamData(handler, event) ==
  IF handler = "handle_ocr_completed"
  THEN [document_id |-> Get(event.data, "document_id"),
        extracted_text |-> Get(event.data, "text"),
        confidence |-> Get(event.data, "confidence")]
  ELSE event.data

\* the pipeline handlers with the two conditions left out
Downstream_Ungated(handler, event) ==
  CASE handler = "handle_ocr_completed" ->
         [event_type |-> "entity.extracted", source |-> "entity_extraction_service"]
    [] handler = "handle_entity_extracted" ->
         [event_type |-> "anomaly.detected", source |-> "anomaly_detection_service"]
    [] handler = "handle_anomaly_detected" ->
         [event_type |-> "fhir.converted", source |-> "fhir_conversion_service"]
    [] handler = "handle_fhir_converted" ->
         [event_type |-> "privacy.checked", source |-> "privacy_service"]
    [] handler = "handle_privacy_checked" ->
         [event_type |-> "hub.updated", source |-> "hub_integration_service"]
    [] OTHER -> [event_type |-> "none", source |-> "none"]

\* what a pipeline handler publishes for an event: the type and source of the
\* next stage's event, "none" when it publishes nothing
Downstream(handler, event) ==
  CASE handler = "handle_ocr_completed" ->
         [event_type |-> "entity.extracted", source |-> "entity_extraction_service"]
    [] handler = "handle_entity_extracted" ->
         [event_type |-> "anomaly.detected", source |-> "anomaly_detection_service"]
    [] handler = "handle_anomaly_detected" ->
         IF ~Truthy(event.data, "is_anomaly")
         THEN [event_type |-> "fhir.converted", source |-> "fhir_conversion_service"]
         ELSE [event_type |-> "none", source |-> "none"]
    [] handler = "handle_fhir_converted" ->
         [event_type |-> "privacy.checked", source |-> "privacy_service"]
    [] handler = "handle_privacy_checked" ->
         IF Truthy(event.data, "access_allowed")
         THEN [event_type |-> "hub.updated", source |-> "hub_integration_service"]
         ELSE [event_type |-> "none", source |-> "none"]
    [] OTHER -> [event_type |-> "none", source |-> "none"]

\* consume_events lines 238-244 with the pipeline handlers: each handler of the
\* event's type is called and publishes the event of the next stage. acc holds
\* the calls made and the producer's log.
RECURSIVE CallPipelineHandlers(_, _, _, _, _)
CallPipelineHandlers(event, hs, k, broker, acc) ==
  IF k > Len(hs) THEN acc
  ELSE LET next == Downstream(hs[k], event)
           p == publish_event(acc.log, next.event_type, DownstreamData(hs[k], event),
                              next.source, event.correlation_id, None, broker)
           log == IF next.event_type = "none" THEN acc.log ELSE p.log
           call == [msg |-> event.event_id, handler |-> hs[k], threw |-> FALSE,
                    published |-> (DOMAIN log) \ (DOMAIN acc.log)]
       IN CallPipelineHandlers(event, hs, k + 1, broker,
                               [dispatched |-> Append(acc.dispatched, call), log |-> log])

\* ---------------------------------------------------- the privacy manager

\* PrivacyManager.get_consent: the newest active row of the triple. The result
\* is a row number of the table, 0 for None; rows granted at the same instant
\* are returned in an order SQL leaves open, so the result is a set.
get_consent(cs, patient_id, organization_id, purpose, db_ok) ==
  LET rows == {i \in 1..Len(cs) :
                 /\ cs[i].patient_id = patient_id
                 /\ cs[i].organization_id = organization_id
                 /\ cs[i].purpose = purpose
                 /\ cs[i].status = "active"}
      newest == {i \in rows : \A j \in rows : cs[j].granted_date <= cs[i].granted_date}
  IN IF ~db_ok \/ rows = {} THEN {0} ELSE newest

\* _update_consent_status that writes nothing
update_consent_status_Dropped(cs, consent_id, status, db_ok) == cs

\* PrivacyManager._update_consent_status: a failed UPDATE is logged and dropped
update_consent_status(cs, consent_id, status, db_ok) ==
  IF db_ok
  THEN [i \in DOMAIN cs |->
          IF cs[i].consent_id = consent_id THEN [cs[i] EXCEPT !.status = status]
          ELSE cs[i]]
  ELSE cs

\* check_consent satisfied with one requested item that the scope has
check_consent_AnyItem(cs, t, row, requested_scope, update_ok) ==
  IF row = 0 THEN [ok |-> FALSE, consents |-> cs]
  ELSE IF cs[row].expiry_date # None /\ t > cs[row].expiry_date[1]
  THEN [ok |-> FALSE,
        consents |-> update_consent_status(cs, cs[row].consent_id, "expired", update_ok)]
  ELSE IF requested_scope \cap cs[row].scope = {}
  THEN [ok |-> FALSE, consents |-> cs]
  ELSE [ok |-> TRUE, consents |-> cs]

\* PrivacyManager.check_consent, given the row get_consent returned
check_consent(cs, t, row, requested_scope, update_ok) ==
  IF row = 0 THEN [ok |-> FALSE, consents |-> cs]
  ELSE IF cs[row].expiry_date # None /\ t > cs[row].expiry_date[1]
  THEN [ok |-> FALSE,
        consents |-> update_consent_status(cs, cs[row].consent_id, "expired", update_ok)]
  ELSE IF ~(requested_scope \subseteq cs[row].scope)
  THEN [ok |-> FALSE, consents |-> cs]
  ELSE [ok |-> TRUE, consents |-> cs]

\* create_audit_log writing the entry over the table
create_audit_log_Replaces(log, t, user_id, action, resource_id, patient_id, access_level, success, details, db_ok) ==
  LET log_id == <<user_id, action, resource_id, t>>
      entry == [log_id |-> log_id, timestamp |-> t, user_id |-> user_id,
                action |-> action, resource_type |-> "PATIENT_DATA",
                resource_id |-> resource_id, patient_id |-> patient_id,
                access_level |-> access_level, success |-> success,
                details |-> details]
  IN IF db_ok
     THEN [raised |-> FALSE, log_id |-> log_id, log |-> <<entry>>]
     ELSE [raised |-> TRUE, log_id |-> None, log |-> log]

\* create_audit_log logging the error of the INSERT and returning the id
create_audit_log_Swallows(log, t, user_id, action, resource_id, patient_id, access_level, success, details, db_ok) ==
  [raised |-> FALSE, log_id |-> <<user_id, action, resource_id, t>>, log |-> log]

\* PrivacyManager.create_audit_log: the INSERT fails when the database does,
\* or when log_id (the table's primary key) is already there; the error is
\* re-raised after the rollback.
create_audit_log(log, t, user_id, action, resource_id, patient_id, access_level, success, details, db_ok) ==
  LET log_id == <<user_id, action, resource_id, t>>
      entry == [log_id |-> log_id, timestamp |-> t, user_id |-> user_id,
                action |-> action, resource_type |-> "PATIENT_DATA",
                resource_id |-> resource_id, patient_id |-> patient_id,
                access_level |-> access_level, success |-> success,
                details |-> details]
  IN IF db_ok /\ \A i \in 1..Len(log) : log[i].log_id # log_id
     THEN [raised |-> FALSE, log_id |-> log_id, log |-> Append(log, entry)]
     ELSE [raised |-> TRUE, log_id |-> None, log |-> log]

\* PrivacyManager._define_phi_fields
phi_fields ==
  [direct_identifiers |->
     <<"name", "ssn", "medical_record_number", "account_number",
       "certificate_number", "vehicle_identifier", "device_identifier",
       "url", "ip_address", "biometric_identifier", "photo",
       "email_address", "phone_number", "fax_number">>,
   dates |->
     <<"date_of_birth", "admission_date", "discharge_date",
       "death_date", "service_date", "appointment_date">>,
   geographic |->
     <<"street_address", "city", "county", "zip_code", "geocode">>,
   financial |->
     <<"insurance_id", "member_id", "policy_number",
       "account_number", "claim_number">>]

all_phi ==
  phi_fields.direct_identifiers \o phi_fields.dates \o phi_fields.geographic
    \o phi_fields.financial

\* ------------------------------------------------------------ mask_phi_data

\* the longest string value of a field
MaxLen == 5

\* the values a field of the record can hold: a str, an int, None, and a
\* nested dict
Letters == <<"a", "b", "c", "d", "e", "f", "g", "h">>
Text(n) == [i \in 1..n |-> Letters[i]]
Starred(n) == [i \in 1..n |-> "*"]
Str(s) == <<"str", s>>
Number(n) == <<"int", n>>
Dict(d) == <<"dict", d>>
Values ==
  {Str(Text(n)) : n \in 0..MaxLen} \cup {Str(Starred(n)) : n \in 1..MaxLen}
    \cup {Number(7), Number(12345), None}
Nested == Dict([ssn |-> Str(Text(MaxLen))])

\* the keys of the record: three of the taxonomy, one that differs from a
\* taxonomy name by case, and one holding a nested record
FieldNames == {"ssn", "account_number", "city", "SSN", "patient"}
ValuesOf(field) ==
  IF field = "patient" THEN {Nested}
  ELSE IF field = "city" THEN {Str(Text(MaxLen)), None}
  ELSE Values
Records ==
  UNION {{d \in [S -> Values \cup {Nested}] : \A f \in S : d[f] \in ValuesOf(f)} :
           S \in SUBSET FieldNames}

\* str(n) of an int
DigitChars == <<"0", "1", "2", "3", "4", "5", "6", "7", "8", "9">>
RECURSIVE Digits(_)
Digits(n) ==
  IF n < 10 THEN <<DigitChars[n + 1]>>
  ELSE Digits(n \div 10) \o <<DigitChars[(n % 10) + 1]>>

\* str(value), line 344, as the sequence of its characters
str(value) ==
  IF value = None THEN <<"N", "o", "n", "e">>
  ELSE IF value[1] = "str" THEN value[2]
  ELSE IF value[2] < 0 THEN <<"-">> \o Digits(0 - value[2])
  ELSE Digits(value[2])

REDACTED ==
  Str(<<"*", "*", "*", "R", "E", "D", "A", "C", "T", "E", "D", "*", "*", "*">>)

\* the partial mask that keeps the first two characters and drops the rest
mask_value_KeepsHead(value) ==
  LET s == str(value)
      n == Len(s)
  IN IF n > 4 THEN Str(SubSeq(s, 1, 2) \o Starred(n - 2))
     ELSE Str(Starred(3))

\* the partial mask of one value, lines 344-348
mask_value(value) ==
  LET s == str(value)
      n == Len(s)
  IN IF n > 4 THEN Str(SubSeq(s, 1, 2) \o Starred(n - 4) \o SubSeq(s, n - 1, n))
     ELSE Str(Starred(3))

\* the loop over all_phi_fields, lines 338-348: fields[k..] are still to do
RECURSIVE mask_fields(_, _, _, _)
mask_fields(masked_data, fields, k, access_level) ==
  IF k > Len(fields) THEN masked_data
  ELSE LET field == fields[k]
           next == IF field \notin DOMAIN masked_data THEN masked_data
                   ELSE IF access_level = "none"
                   THEN [masked_data EXCEPT ![field] = REDACTED]
                   ELSE IF access_level = "limited"
                   THEN [masked_data EXCEPT ![field] = mask_value(masked_data[field])]
                   ELSE masked_data
       IN mask_fields(next, fields, k + 1, access_level)

\* mask_phi_data redacting the direct identifiers alone
mask_phi_data_DirectOnly(data, access_level) ==
  IF access_level = "full" THEN data
  ELSE mask_fields(data, phi_fields.direct_identifiers, 1, access_level)

\* PrivacyManager.mask_phi_data
mask_phi_data(data, access_level) ==
  IF access_level = "full" THEN data
  ELSE mask_fields(data, all_phi, 1, access_level)

\* mask_phi_data masking the record it was given, without the copy
mask_phi_data_effect_NoCopy(data, access_level) ==
  [caller_data |-> mask_phi_data(data, access_level),
   ret |-> mask_phi_data(data, access_level)]

\* what a call of mask_phi_data leaves behind: the caller's record and the
\* returned one. For Full the caller's record is returned (line 328);
\* otherwise the writes of the loop go to the copy made at line 330.
mask_phi_data_effect(data, access_level) ==
  [caller_data |-> data,
   ret |-> mask_phi_data(data, access_level)]

\* mask_phi_data was not called
NoMasking == [pc |-> "idle", data |-> <<>>, access_level |-> "full", masked |-> <<>>,
              caller_data |-> <<>>]

NoResult == [allowed |-> FALSE, access_level |-> "none", consent_status |-> "none",
             reason |-> "none", masked_fields |-> <<>>, audit_log_id |-> None]

\* no check_access call was made directly yet
NoCheck == [called |-> FALSE, purpose |-> "none", requested_scope |-> {}, row |-> 0,
            update_ok |-> TRUE, t |-> 0, consent_valid |-> FALSE,
            audit_ok |-> TRUE, raised |-> FALSE, result |-> NoResult]

\* no check_consent call was made directly yet
NoConsentCheck == [called |-> FALSE, purpose |-> "none", requested_scope |-> {},
                   row |-> 0, update_ok |-> TRUE, t |-> 0, ret |-> FALSE]

\* no create_audit_log call was made directly yet
NoAppend == [called |-> FALSE, action |-> "none", t |-> 0, db_ok |-> TRUE,
             raised |-> FALSE, log_id |-> None]

\* check_access granting the Full level to every request it allows
check_access_AlwaysFull(cs, log, t, user_id, patient_id, requested_scope, row, update_ok, audit_ok) ==
  LET has_consent == check_consent(cs, t, row, requested_scope, update_ok)
      access_level == "full"
      masked_fields == IF access_level # "full" THEN all_phi ELSE <<>>
      denied == create_audit_log(log, t, user_id, "ACCESS_DENIED", patient_id,
                                 patient_id, "NONE", FALSE,
                                 [reason |-> "No valid consent"], audit_ok)
      granted == create_audit_log(log, t, user_id, "ACCESS_GRANTED", patient_id,
                                  patient_id, access_level, TRUE,
                                  [scope |-> requested_scope], audit_ok)
  IN IF ~has_consent.ok
     THEN [raised |-> denied.raised,
           consents |-> has_consent.consents,
           audit_logs |-> denied.log,
           result |-> IF denied.raised THEN NoResult
                      ELSE [allowed |-> FALSE, access_level |-> "none",
                            consent_status |-> "revoked",
                            reason |-> "No valid consent found",
                            masked_fields |-> <<>>,
                            audit_log_id |-> denied.log_id]]
     ELSE [raised |-> granted.raised,
           consents |-> has_consent.consents,
           audit_logs |-> granted.log,
           result |-> IF granted.raised THEN NoResult
                      ELSE [allowed |-> TRUE, access_level |-> access_level,
                            consent_status |-> "active",
                            reason |-> "Valid consent found",
                            masked_fields |-> masked_fields,
                            audit_log_id |-> granted.log_id]]

\* PrivacyManager.check_access. `row` is what get_consent returned; update_ok
\* and audit_ok say whether the UPDATE and the INSERT reach the database.
check_access(cs, log, t, user_id, patient_id, requested_scope, row, update_ok, audit_ok) ==
  LET has_consent == check_consent(cs, t, row, requested_scope, update_ok)
      access_level == IF "full_access" \in requested_scope THEN "full"
                      ELSE IF "limited_access" \in requested_scope THEN "limited"
                      ELSE "limited"
      masked_fields == IF access_level # "full" THEN all_phi ELSE <<>>
      denied == create_audit_log(log, t, user_id, "ACCESS_DENIED", patient_id,
                                 patient_id, "NONE", FALSE,
                                 [reason |-> "No valid consent"], audit_ok)
      granted == create_audit_log(log, t, user_id, "ACCESS_GRANTED", patient_id,
                                  patient_id, access_level, TRUE,
                                  [scope |-> requested_scope], audit_ok)
  IN IF ~has_consent.ok
     THEN [raised |-> denied.raised,
           consents |-> has_consent.consents,
           audit_logs |-> denied.log,
           result |-> IF denied.raised THEN NoResult
                      ELSE [allowed |-> FALSE, access_level |-> "none",
                            consent_status |-> "revoked",
                            reason |-> "No valid consent found",
                            masked_fields |-> <<>>,
                            audit_log_id |-> denied.log_id]]
     ELSE [raised |-> granted.raised,
           consents |-> has_consent.consents,
           audit_logs |-> granted.log,
           result |-> IF granted.raised THEN NoResult
                      ELSE [allowed |-> TRUE, access_level |-> access_level,
                            consent_status |-> "active",
                            reason |-> "Valid consent found",
                            masked_fields |-> masked_fields,
                            audit_log_id |-> granted.log_id]]

\* PrivacyManager.create_consent with _generate_consent_id and _store_consent:
\* the id is a hash of patient, organization and the time of the call, and the
\* INSERT updates status and expiry of a row that already has the id.
create_consent(cs, t, patient_id, organization_id, purpose, scope, duration) ==
  LET consent_id == <<patient_id, organization_id, t>>
      consent == [consent_id |-> consent_id, patient_id |-> patient_id,
                  organization_id |-> organization_id, purpose |-> purpose,
                  status |-> "active", granted_date |-> t,
                  expiry_date |-> <<t + duration>>, scope |-> scope]
  IN IF \E i \in 1..Len(cs) : cs[i].consent_id = consent_id
     THEN [i \in DOMAIN cs |->
             IF cs[i].consent_id = consent_id
             THEN [cs[i] EXCEPT !.status = "active", !.expiry_date = consent.expiry_date]
             ELSE cs[i]]
     ELSE Append(cs, consent)

\* PrivacyManager.revoke_consent
revoke_consent(cs, consent_id, db_ok) ==
  IF db_ok
  THEN [i \in DOMAIN cs |->
          IF cs[i].consent_id = consent_id THEN [cs[i] EXCEPT !.status = "revoked"]
          ELSE cs[i]]
  ELSE cs

\* ------------------------------------------------------- the orchestrator

\* result['steps'][name] = value on a Python dict, which keeps insertion order
DictSet(steps, name, value) ==
  IF \E i \in 1..Len(steps) : steps[i].name = name
  THEN [i \in DOMAIN steps |-> IF steps[i].name = name THEN value ELSE steps[i]]
  ELSE Append(steps, value)

StepEntry(name, detail) == [name |-> name, status |-> "completed", detail |-> detail]

\* _get_current_step naming the last stage that completed
get_current_step_LastCompleted(steps) ==
  IF steps = <<>> THEN "ocr" ELSE steps[Len(steps)].name

\* PayerHubOrchestrator._get_current_step
get_current_step(steps) ==
  LET completed_steps == {steps[i].name : i \in {j \in 1..Len(steps) : steps[j].status = "completed"}}
      missing == {k \in 1..Len(all_steps) : all_steps[k] \notin completed_steps}
  IN IF missing = {} THEN "hub_update"
     ELSE all_steps[CHOOSE k \in missing : \A m \in missing : k <= m]

\* `not x` of Python for None and strings
Falsy(x) == x = None \/ x = EmptyStr

\* a process_document call that has not been made yet
IdleRun ==
  [pc |-> "idle", supplied_correlation_id |-> None,
   correlation_id |-> None, document_id |-> None,
   status |-> "None", steps |-> <<>>, error |-> "None", review_reason |-> "None",
   denial_reason |-> "None", exc |-> "None", raised_in |-> "None",
   anomaly_result |-> [is_anomaly |-> FALSE, anomaly_type |-> "None"],
   privacy_result |-> NoResult, gate_calls |-> 0, fhir_calls |-> 0, hub_calls |-> 0]

\* the stores a deployment can hold when the runs start: create_consent was
\* called at most once, at time 0, for the orchestrator's patient
InitialStores ==
  {<<>>} \cup
  {create_consent(<<>>, 0, Patient, Organization, "treatment", sc, d) :
     sc \in {{"full_access"}, {"limited_access"}}, d \in {1, MaxTime + 1}}

Init ==
  /\ runs = [r \in Runs |-> IdleRun]
  /\ sent = [r \in Runs |-> <<>>]
  /\ consents \in InitialStores
  /\ audit_logs = <<>>
  /\ now = 0
  /\ last_check = NoCheck
  /\ last_consent = NoConsentCheck
  /\ stream = <<>>
  /\ consumer = NewConsumer
  /\ dead_letter = <<>>
  /\ transport = NoTransport
  /\ last_append = NoAppend
  /\ masking = NoMasking

\* the sends the broker failed, over all runs: the model follows the broker
\* through at most MaxBrokerFailures of them
Unacked(logs) ==
  Cardinality(UNION {{<<r, i>> : i \in {j \in DOMAIN logs[r] : ~logs[r][j].acked}} :
                       r \in DOMAIN logs})

BrokerBudget(logs) == Unacked(logs) <= MaxBrokerFailures

\* a publish_event call of run r made without the correlation id
Publish_NoCorrelation(r, log, event_type, data, source, broker) ==
  publish_event(log, event_type, data, source, None, None, broker)

\* the publish_event call of run r
Publish(r, log, event_type, data, source, broker) ==
  publish_event(log, event_type, data, source, runs[r].correlation_id, None, broker)

\* an exception leaves the try block of process_document
Raise(r, stage, msg, log) ==
  /\ runs' = [runs EXCEPT ![r].pc = "except", ![r].exc = msg, ![r].raised_in = stage]
  /\ sent' = [sent EXCEPT ![r] = log]

\* process_document, lines 98-108: the ids and the result dict. A call runs
\* to its return before the event loop starts another one: no coroutine that
\* process_document awaits ever suspends.
Start(r) ==
  /\ runs[r].pc = "idle"
  /\ \A q \in Runs : runs[q].pc \in {"idle", "returned", "escaped"}
  /\ \A q \in Runs : q < r => runs[q].pc # "idle"
  /\ \E cid \in CallerCorrelationIds :
       runs' = [runs EXCEPT ![r].pc = "ocr",
                            ![r].supplied_correlation_id = cid,
                            ![r].correlation_id = IF Falsy(cid) THEN <<"CORR", r>> ELSE cid,
                            ![r].document_id = <<"DOC", r>>,
                            ![r].status = "processing"]
  /\ UNCHANGED <<sent, consents, audit_logs, now, last_check, last_consent, stream, consumer, dead_letter, transport,
                 last_append, masking>>

\* _step_ocr_processing
StepOcr(r) ==
  /\ runs[r].pc = "ocr"
  /\ \E b1, b2 \in BrokerOutcomes, file_ext \in FileExts, ocr_ok \in BOOLEAN :
       LET p1 == Publish(r, sent[r], "document.received", [document_type |-> "doc"],
                         "ocr_processor", b1)
           p2 == Publish(r, p1.log, "ocr.completed", [document_type |-> "doc"],
                         "ocr_processor", b2)
       IN IF p1.raised THEN Raise(r, "ocr", "KafkaError", p1.log)
          ELSE IF file_ext \notin SupportedExts
          THEN Raise(r, "ocr", "Unsupported file type", p1.log)
          ELSE IF ~ocr_ok THEN Raise(r, "ocr", "ocr failed", p1.log)
          ELSE IF p2.raised THEN Raise(r, "ocr", "KafkaError", p2.log)
          ELSE /\ runs' = [runs EXCEPT ![r].pc = "rec_ocr"]
               /\ sent' = [sent EXCEPT ![r] = p2.log]
  /\ BrokerBudget(sent')
  /\ UNCHANGED <<consents, audit_logs, now, last_check, last_consent, stream, consumer, dead_letter, transport,
                 last_append, masking>>

\* the step entry written to the result dict of every call in progress
Record_SharedResult(r, at, name, detail, next) ==
  /\ runs[r].pc = at
  /\ runs' = [q \in DOMAIN runs |->
                IF q = r
                THEN [runs[q] EXCEPT !.pc = next,
                                     !.steps = DictSet(@, name, StepEntry(name, detail))]
                ELSE IF runs[q].pc \in {"idle", "returned", "escaped"} THEN runs[q]
                ELSE [runs[q] EXCEPT !.steps = DictSet(@, name, StepEntry(name, detail))]]
  /\ UNCHANGED <<sent, consents, audit_logs, now, last_check, last_consent, stream, consumer, dead_letter, transport,
                 last_append, masking>>

\* result['steps'][name] = {...} of process_document, then on to pc `next`
Record(r, at, name, detail, next) ==
  /\ runs[r].pc = at
  /\ runs' = [runs EXCEPT ![r].pc = next,
                          ![r].steps = DictSet(@, name, StepEntry(name, detail))]
  /\ UNCHANGED <<sent, consents, audit_logs, now, last_check, last_consent, stream, consumer, dead_letter, transport,
                 last_append, masking>>

RecordOcr(r) == Record(r, "rec_ocr", "ocr", [document_type |-> "doc"], "entity")

\* _step_entity_extraction
StepEntity(r) ==
  /\ runs[r].pc = "entity"
  /\ \E b \in BrokerOutcomes, ok \in BOOLEAN :
       LET p == Publish(r, sent[r], "entity.extracted", [entities_count |-> 1],
                        "entity_extractor", b)
       IN IF ~ok THEN Raise(r, "entity_extraction", "extraction failed", sent[r])
          ELSE IF p.raised THEN Raise(r, "entity_extraction", "KafkaError", p.log)
          ELSE /\ runs' = [runs EXCEPT ![r].pc = "rec_entity"]
               /\ sent' = [sent EXCEPT ![r] = p.log]
  /\ BrokerBudget(sent')
  /\ UNCHANGED <<consents, audit_logs, now, last_check, last_consent, stream, consumer, dead_letter, transport,
                 last_append, masking>>

\* the entity entry written under the key of the stage before
RecordEntity_WrongKey(r) ==
  Record(r, "rec_entity", "ocr", [entities_count |-> 1], "anomaly")

RecordEntity(r) ==
  Record(r, "rec_entity", "entity_extraction", [entities_count |-> 1], "anomaly")

\* _step_anomaly_detection
StepAnomaly(r) ==
  /\ runs[r].pc = "anomaly"
  /\ \E b \in BrokerOutcomes, ok \in BOOLEAN, res \in AnomalyResults :
       LET p == Publish(r, sent[r], "anomaly.detected", res, "anomaly_detector", b)
       IN IF ~ok THEN Raise(r, "anomaly_detection", "detection failed", sent[r])
          ELSE IF p.raised THEN Raise(r, "anomaly_detection", "KafkaError", p.log)
          ELSE /\ runs' = [runs EXCEPT ![r].pc = "rec_anomaly", ![r].anomaly_result = res]
               /\ sent' = [sent EXCEPT ![r] = p.log]
  /\ BrokerBudget(sent')
  /\ UNCHANGED <<consents, audit_logs, now, last_check, last_consent, stream, consumer, dead_letter, transport,
                 last_append, masking>>
\* the anomaly gate returning without a status
AnomalyGate_NoStatus(run, res) ==
  IF res.is_anomaly
  THEN [run EXCEPT !.pc = "returned", !.review_reason = res.anomaly_type]
  ELSE [run EXCEPT !.pc = "fhir"]

\* the anomaly gate warning and going on
AnomalyGate_FallsThrough(run, res) ==
  IF res.is_anomaly
  THEN [run EXCEPT !.pc = "fhir", !.review_reason = res.anomaly_type]
  ELSE [run EXCEPT !.pc = "fhir"]

\* lines 146-151: an anomaly ends the run for manual review
AnomalyGate(run, res) ==
  IF res.is_anomaly
  THEN [run EXCEPT !.pc = "returned",
                   !.status = "manual_review_required",
                   !.review_reason = res.anomaly_type]
  ELSE [run EXCEPT !.pc = "fhir"]

\* the anomaly entry of the step map, lines 139-144, then the anomaly gate
RecordAnomaly(r) ==
  /\ runs[r].pc = "rec_anomaly"
  /\ LET res == runs[r].anomaly_result
         recorded == [runs[r] EXCEPT !.steps = DictSet(@, "anomaly_detection",
                                                      StepEntry("anomaly_detection", res))]
     IN runs' = [runs EXCEPT ![r] = AnomalyGate(recorded, res)]
  /\ UNCHANGED <<sent, consents, audit_logs, now, last_check, last_consent, stream, consumer, dead_letter, transport,
                 last_append, masking>>

\* _step_fhir_conversion
StepFhir(r) ==
  /\ runs[r].pc = "fhir"
  /\ \E b \in BrokerOutcomes, ok \in BOOLEAN :
       LET p == Publish(r, sent[r], "fhir.converted", [resource_type |-> "Claim"],
                        "fhir_mapper", b)
           called == [runs EXCEPT ![r].fhir_calls = @ + 1]
       IN IF ~ok
          THEN /\ runs' = [called EXCEPT ![r].pc = "except",
                                         ![r].exc = "conversion failed",
                                         ![r].raised_in = "fhir_conversion"]
               /\ sent' = sent
          ELSE IF p.raised
          THEN /\ runs' = [called EXCEPT ![r].pc = "except", ![r].exc = "KafkaError",
                                         ![r].raised_in = "fhir_conversion"]
               /\ sent' = [sent EXCEPT ![r] = p.log]
          ELSE /\ runs' = [called EXCEPT ![r].pc = "rec_fhir"]
               /\ sent' = [sent EXCEPT ![r] = p.log]
  /\ BrokerBudget(sent')
  /\ UNCHANGED <<consents, audit_logs, now, last_check, last_consent, stream, consumer, dead_letter, transport,
                 last_append, masking>>

RecordFhir(r) ==
  Record(r, "rec_fhir", "fhir_conversion", [resource_type |-> "Claim"], "privacy")

\* _step_privacy_check: check_access for purpose 'treatment' and scope
\* ['full_access'], then the privacy.checked event
StepPrivacy(r) ==
  /\ runs[r].pc = "privacy"
  /\ \E b \in BrokerOutcomes, read_ok, update_ok, audit_ok \in BOOLEAN :
     \E row \in get_consent(consents, Patient, Organization, "treatment", read_ok) :
       LET ca == check_access(consents, audit_logs, now, User, Patient,
                              {"full_access"}, row, update_ok, audit_ok)
           p == Publish(r, sent[r], "privacy.checked",
                        [access_allowed |-> ca.result.allowed,
                         access_level |-> ca.result.access_level,
                         audit_log_id |-> ca.result.audit_log_id],
                        "privacy_manager", b)
           called == [runs EXCEPT ![r].gate_calls = @ + 1]
       IN /\ consents' = ca.consents
          /\ audit_logs' = ca.audit_logs
          /\ IF ca.raised
             THEN /\ runs' = [called EXCEPT ![r].pc = "except",
                                            ![r].exc = "audit log failed",
                                            ![r].raised_in = "privacy_check"]
                  /\ sent' = sent
             ELSE IF p.raised
             THEN /\ runs' = [called EXCEPT ![r].pc = "except", ![r].exc = "KafkaError",
                                            ![r].raised_in = "privacy_check"]
                  /\ sent' = [sent EXCEPT ![r] = p.log]
             ELSE /\ runs' = [called EXCEPT ![r].pc = "rec_privacy",
                                            ![r].privacy_result = ca.result]
                  /\ sent' = [sent EXCEPT ![r] = p.log]
  /\ BrokerBudget(sent')
  /\ UNCHANGED <<now, last_check, last_consent, stream, consumer, dead_letter, transport,
                 last_append, masking>>

\* the access gate warning and going on
AccessGate_FallsThrough(run, res) ==
  IF ~res.allowed
  THEN [run EXCEPT !.pc = "hub", !.denial_reason = res.reason]
  ELSE [run EXCEPT !.pc = "hub"]

\* lines 177-182: a denial ends the run
AccessGate(run, res) ==
  IF ~res.allowed
  THEN [run EXCEPT !.pc = "returned",
                   !.status = "access_denied",
                   !.denial_reason = res.reason]
  ELSE [run EXCEPT !.pc = "hub"]

\* the privacy entry of the step map, lines 170-175, then the access gate
RecordPrivacy(r) ==
  /\ runs[r].pc = "rec_privacy"
  /\ LET res == runs[r].privacy_result
         entry == StepEntry("privacy_check",
                            [access_allowed |-> res.allowed,
                             access_level |-> res.access_level,
                             audit_log_id |-> res.audit_log_id])
         recorded == [runs[r] EXCEPT !.steps = DictSet(@, "privacy_check", entry)]
     IN runs' = [runs EXCEPT ![r] = AccessGate(recorded, res)]
  /\ UNCHANGED <<sent, consents, audit_logs, now, last_check, last_consent, stream, consumer, dead_letter, transport,
                 last_append, masking>>

\* _step_hub_update: the simulated CRM update and the hub.updated event
StepHub(r) ==
  /\ runs[r].pc = "hub"
  /\ \E b \in BrokerOutcomes :
       LET p == Publish(r, sent[r], "hub.updated", [record_id |-> <<"HUB", r>>],
                        "hub_integration", b)
           called == [runs EXCEPT ![r].hub_calls = @ + 1]
       IN IF p.raised
          THEN /\ runs' = [called EXCEPT ![r].pc = "except", ![r].exc = "KafkaError",
                                         ![r].raised_in = "hub_update"]
               /\ sent' = [sent EXCEPT ![r] = p.log]
          ELSE /\ runs' = [called EXCEPT ![r].pc = "rec_hub"]
               /\ sent' = [sent EXCEPT ![r] = p.log]
  /\ BrokerBudget(sent')
  /\ UNCHANGED <<consents, audit_logs, now, last_check, last_consent, stream, consumer, dead_letter, transport,
                 last_append, masking>>

\* the hub entry of the step map and the final status, lines 189-196 and 215
RecordHub(r) ==
  /\ runs[r].pc = "rec_hub"
  /\ runs' = [runs EXCEPT ![r].pc = "returned",
                          ![r].steps = DictSet(@, "hub_update",
                                               StepEntry("hub_update",
                                                         [hub_record_id |-> <<"HUB", r>>])),
                          ![r].status = "completed"]
  /\ UNCHANGED <<sent, consents, audit_logs, now, last_check, last_consent, stream, consumer, dead_letter, transport,
                 last_append, masking>>

\* the except block setting the status without publishing error.occurred
HandleException_Silent(r) ==
  /\ runs[r].pc = "except"
  /\ runs' = [runs EXCEPT ![r].pc = "returned",
                          ![r].status = "failed",
                          ![r].error = runs[r].exc]
  /\ UNCHANGED <<sent, consents, audit_logs, now, last_check, last_consent, stream, consumer,
                 dead_letter, transport, last_append, masking>>

\* the except block of process_document, lines 198-213, and the return of 215
HandleException(r) ==
  /\ runs[r].pc = "except"
  /\ \E b \in BrokerOutcomes :
       LET p == Publish(r, sent[r], "error.occurred",
                        [document_id |-> runs[r].document_id,
                         error |-> runs[r].exc,
                         step |-> get_current_step(runs[r].steps)],
                        "orchestrator", b)
       IN /\ runs' = [runs EXCEPT ![r].pc = IF p.raised THEN "escaped" ELSE "returned",
                                  ![r].status = "failed",
                                  ![r].error = runs[r].exc]
          /\ sent' = [sent EXCEPT ![r] = p.log]
  /\ BrokerBudget(sent')
  /\ UNCHANGED <<consents, audit_logs, now, last_check, last_consent, stream, consumer, dead_letter, transport,
                 last_append, masking>>

\* time passes
Tick ==
  /\ now < MaxTime
  /\ now' = now + 1
  /\ UNCHANGED <<runs, sent, consents, audit_logs, last_check, last_consent, stream, consumer, dead_letter, transport,
                 last_append, masking>>

\* the pipeline reads the clock in check_access alone: time that passes
\* elsewhere in a run shows nowhere, so it is left to pass before that read
TickBeforeRead ==
  /\ \E r \in DOMAIN runs : runs[r].pc = "privacy"
  /\ Tick

Next ==
  \/ \E r \in Runs : Start(r)
  \/ \E r \in Runs : StepOcr(r)
  \/ \E r \in Runs : RecordOcr(r)
  \/ \E r \in Runs : StepEntity(r)
  \/ \E r \in Runs : RecordEntity(r)
  \/ \E r \in Runs : StepAnomaly(r)
  \/ \E r \in Runs : RecordAnomaly(r)
  \/ \E r \in Runs : StepFhir(r)
  \/ \E r \in Runs : RecordFhir(r)
  \/ \E r \in Runs : StepPrivacy(r)
  \/ \E r \in Runs : RecordPrivacy(r)
  \/ \E r \in Runs : StepHub(r)
  \/ \E r \in Runs : RecordHub(r)
  \/ \E r \in Runs : HandleException(r)
  \/ TickBeforeRead

Spec == Init /\ [][Next]_vars

\* ------------------------------------------------ two runs at the same time

\* two process_document calls on one orchestrator, each in a thread with an
\* event loop of its own: their steps interleave in every way
ConcurrentRuns == {1, 2}

\* the stores the two calls can find: no consent, or one that allows the
\* pipeline's request until it expires
ConcurrentStores ==
  {<<>>, create_consent(<<>>, 0, Patient, Organization, "treatment", {"full_access"}, 1)}

InitConcurrent ==
  /\ runs = [r \in ConcurrentRuns |-> IdleRun]
  /\ sent = [r \in ConcurrentRuns |-> <<>>]
  /\ consents \in ConcurrentStores
  /\ audit_logs = <<>>
  /\ now = 0
  /\ last_check = NoCheck
  /\ last_consent = NoConsentCheck
  /\ stream = <<>>
  /\ consumer = NewConsumer
  /\ dead_letter = <<>>
  /\ transport = NoTransport
  /\ last_append = NoAppend
  /\ masking = NoMasking

\* process_document, lines 98-108, whatever the other call is doing
StartConcurrent(r) ==
  /\ runs[r].pc = "idle"
  /\ \E cid \in {None, <<"caller", 1>>} :
       runs' = [runs EXCEPT ![r].pc = "ocr",
                            ![r].supplied_correlation_id = cid,
                            ![r].correlation_id = IF Falsy(cid) THEN <<"CORR", r>> ELSE cid,
                            ![r].document_id = <<"DOC", r>>,
                            ![r].status = "processing"]
  /\ UNCHANGED <<sent, consents, audit_logs, now, last_check, last_consent, stream,
                 consumer, dead_letter, transport, last_append, masking>>

NextConcurrent ==
  \/ \E r \in ConcurrentRuns : StartConcurrent(r)
  \/ \E r \in ConcurrentRuns : StepOcr(r)
  \/ \E r \in ConcurrentRuns : RecordOcr(r)
  \/ \E r \in ConcurrentRuns : StepEntity(r)
  \/ \E r \in ConcurrentRuns : RecordEntity(r)
  \/ \E r \in ConcurrentRuns : StepAnomaly(r)
  \/ \E r \in ConcurrentRuns : RecordAnomaly(r)
  \/ \E r \in ConcurrentRuns : StepFhir(r)
  \/ \E r \in ConcurrentRuns : RecordFhir(r)
  \/ \E r \in ConcurrentRuns : StepPrivacy(r)
  \/ \E r \in ConcurrentRuns : RecordPrivacy(r)
  \/ \E r \in ConcurrentRuns : StepHub(r)
  \/ \E r \in ConcurrentRuns : RecordHub(r)
  \/ \E r \in ConcurrentRuns : HandleException(r)
  \/ TickBeforeRead

SpecConcurrent == InitConcurrent /\ [][NextConcurrent]_vars

\* ------------------------------------------------- a run that is cancelled

\* the task of a process_document call is cancelled. No coroutine the call
\* awaits suspends, so the event loop can deliver the CancelledError before
\* the first statement of the coroutine alone; CancelledError is no Exception,
\* the except of line 198 does not catch it, and it reaches the awaiter.
Cancel(r) ==
  /\ runs[r].pc = "idle"
  /\ \A q \in Runs : runs[q].pc \in {"idle", "returned", "escaped", "cancelled"}
  /\ \A q \in Runs : q < r => runs[q].pc # "idle"
  /\ runs' = [runs EXCEPT ![r].pc = "cancelled"]
  /\ UNCHANGED <<sent, consents, audit_logs, now, last_check, last_consent, stream,
                 consumer, dead_letter, transport, last_append, masking>>

NextCancel ==
  \/ Next
  \/ \E r \in Runs : Cancel(r)

SpecCancel == Init /\ [][NextCancel]_vars
\* -------------------------------------- the privacy manager, called directly

InitGate ==
  /\ runs = [r \in Runs |-> IdleRun]
  /\ sent = [r \in Runs |-> <<>>]
  /\ consents = <<>>
  /\ audit_logs = <<>>
  /\ now = 0
  /\ last_check = NoCheck
  /\ last_consent = NoConsentCheck
  /\ stream = <<>>
  /\ consumer = NewConsumer
  /\ dead_letter = <<>>
  /\ transport = NoTransport
  /\ last_append = NoAppend
  /\ masking = NoMasking

\* what the UPDATE of _update_consent_status can do in a check_consent call at
\* time t on the row get_consent returned: it is run for a record past its
\* expiry alone
UpdateOutcomes(cs, t, row) ==
  IF row # 0 /\ cs[row].expiry_date # None /\ t > cs[row].expiry_date[1]
  THEN BOOLEAN ELSE {TRUE}

\* a call of create_consent for one of `purposes` that leaves at most `limit`
\* rows in the table
Grant(purposes, limit) ==
  /\ \E purpose \in purposes, scope \in GrantedScopes, duration \in Durations :
       LET stored == create_consent(consents, now, Patient, Organization, purpose,
                                    scope, duration)
       IN /\ Len(stored) <= limit
          /\ consents' = stored
  /\ UNCHANGED <<runs, sent, audit_logs, now, last_check, last_consent, stream, consumer, dead_letter, transport,
                 last_append, masking>>

CreateConsent == Grant(Purposes, MaxConsents)

\* a call of revoke_consent
RevokeConsent ==
  /\ \E i \in DOMAIN consents, db_ok \in BOOLEAN :
       consents' = revoke_consent(consents, consents[i].consent_id, db_ok)
  /\ UNCHANGED <<runs, sent, audit_logs, now, last_check, last_consent, stream, consumer, dead_letter, transport,
                 last_append, masking>>

\* a call of check_access with one of `scopes`, for every answer of the database
AccessCheck(scopes) ==
  /\ Len(audit_logs) < MaxAudit
  /\ \E purpose \in Purposes, scope \in scopes, read_ok, audit_ok \in BOOLEAN :
     \E row \in get_consent(consents, Patient, Organization, purpose, read_ok) :
     \E update_ok \in UpdateOutcomes(consents, now, row) :
       LET ca == check_access(consents, audit_logs, now, User, Patient, scope, row,
                              update_ok, audit_ok)
       IN /\ consents' = ca.consents
          /\ audit_logs' = ca.audit_logs
          /\ last_check' = [called |-> TRUE,
                            purpose |-> purpose,
                            requested_scope |-> scope,
                            row |-> row,
                            update_ok |-> update_ok,
                            t |-> now,
                            consent_valid |-> check_consent(consents, now, row, scope,
                                                            update_ok).ok,
                            audit_ok |-> audit_ok,
                            raised |-> ca.raised,
                            result |-> ca.result]
  /\ UNCHANGED <<runs, sent, now, last_consent, stream, consumer, dead_letter, transport,
                 last_append, masking>>

\* a call of check_access, for every scope
CheckAccess == AccessCheck(GateScopes)

NextGate ==
  \/ CreateConsent
  \/ RevokeConsent
  \/ CheckAccess
  \/ Tick

SpecGate == InitGate /\ [][NextGate]_vars

\* ----------------------------------------- the consent store, called directly

\* a call of create_consent on the store of the consent specification
GrantConsent == Grant(StorePurposes, MaxRecords)

\* a call of check_consent for one of `purposes` with one of `scopes`, for
\* every answer of the database
ConsentCheck(purposes, scopes) ==
  /\ \E purpose \in purposes, scope \in scopes, read_ok \in BOOLEAN :
     \E row \in get_consent(consents, Patient, Organization, purpose, read_ok) :
     \E update_ok \in UpdateOutcomes(consents, now, row) :
       LET cc == check_consent(consents, now, row, scope, update_ok)
       IN /\ consents' = cc.consents
          /\ last_consent' = [called |-> TRUE, purpose |-> purpose,
                              requested_scope |-> scope, row |-> row,
                              update_ok |-> update_ok, t |-> now, ret |-> cc.ok]
  /\ UNCHANGED <<runs, sent, audit_logs, now, last_check, stream, consumer, dead_letter, transport,
                 last_append, masking>>

\* a call of check_consent, for every purpose and scope
CheckConsent == ConsentCheck(StorePurposes, RequestedScopes)

NextConsent ==
  \/ GrantConsent
  \/ RevokeConsent
  \/ CheckConsent
  \/ Tick

SpecConsent == InitGate /\ [][NextConsent]_vars

\* ---------------------------------------------- publish_event, called directly

\* publish_event up to producer.send, lines 117-150: the record is handed to
\* the producer, which makes the first send
CallPublish ==
  /\ transport.pc \in {"idle", "done"}
  /\ transport.calls < MaxCalls
  /\ transport' = [transport EXCEPT !.pc = "waiting", !.calls = @ + 1, !.attempts = 1,
                                    !.elapsed = 0, !.outcome = "none"]
  /\ UNCHANGED <<runs, sent, consents, audit_logs, now, last_check, last_consent, stream,
                 consumer, dead_letter, last_append, masking>>

\* future.get returns or raises: publish_event returns, lines 153-166
Return(outcome, elapsed) ==
  LET p == publish_event(transport.log, "ocr.completed", [document_type |-> "doc"],
                         "ocr_processor", None, None, outcome)
  IN transport' = [transport EXCEPT !.pc = "done", !.outcome = outcome,
                                    !.elapsed = elapsed, !.raised = p.raised,
                                    !.ret = p.ret, !.log = p.log]

\* the broker answers the send in flight while publish_event waits in
\* future.get(timeout=10): an acknowledgment resolves the future, an error
\* makes the producer send again or fails the future, and an answer that would
\* come after the timeout is not waited for
BrokerAnswers ==
  /\ transport.pc = "waiting"
  /\ \E d \in AnswerTimes, answer \in BrokerOutcomes, retriable \in BOOLEAN :
       LET elapsed == transport.elapsed + d
       IN IF elapsed > ack_timeout THEN Return("timeout", ack_timeout)
          ELSE IF answer = "ack" THEN Return("ack", elapsed)
          ELSE IF can_retry(transport.attempts, retriable)
          THEN transport' = [transport EXCEPT !.attempts = @ + 1, !.elapsed = elapsed]
          ELSE Return("error", elapsed)
  /\ UNCHANGED <<runs, sent, consents, audit_logs, now, last_check, last_consent, stream,
                 consumer, dead_letter, last_append, masking>>

NextPublish ==
  \/ CallPublish
  \/ BrokerAnswers

SpecPublish == InitGate /\ [][NextPublish]_vars

\* ------------------------------------------------------- the consumer loop

InitConsume ==
  /\ runs = [r \in Runs |-> IdleRun]
  /\ sent = [r \in Runs |-> <<>>]
  /\ consents = <<>>
  /\ audit_logs = <<>>
  /\ now = 0
  /\ last_check = NoCheck
  /\ last_consent = NoConsentCheck
  /\ stream = <<>>
  /\ consumer = NewConsumer
  /\ dead_letter = <<>>
  /\ transport = NoTransport
  /\ last_append = NoAppend
  /\ masking = NoMasking

Registered(c) == UNION {{<<t, k>> : k \in DOMAIN c.event_handlers[t]} : t \in EventType}

\* register_handler
RegisterHandler ==
  /\ consumer.pc = "idle"
  /\ Cardinality(Registered(consumer)) < MaxHandlers
  /\ \E t \in ConsumedTypes, h \in Handlers :
       consumer' = [consumer EXCEPT !.event_handlers[t] = Append(@, h)]
  /\ UNCHANGED <<runs, sent, consents, audit_logs, now, last_check, last_consent, stream, dead_letter, transport,
                 last_append, masking>>

\* a message reaches a subscribed topic. The consumer reads the topic in
\* order, so the messages it will be given are put there before it starts.
Arrive ==
  /\ consumer.pc = "idle"
  /\ Len(stream) < MaxStream
  /\ \E m \in MessageKinds :
       stream' = Append(stream, [event_id |-> Len(stream) + 1,
                                 event_type |-> m.event_type,
                                 complete |-> m.complete])
  /\ UNCHANGED <<runs, sent, consents, audit_logs, now, last_check, last_consent, consumer, dead_letter, transport,
                 last_append, masking>>

\* consume_events is called
StartConsume ==
  /\ consumer.pc = "idle"
  /\ \E max_messages \in {0, 2} :
       consumer' = [consumer EXCEPT !.pc = "running", !.max_messages = max_messages,
                                    !.open = TRUE]
  /\ UNCHANGED <<runs, sent, consents, audit_logs, now, last_check, last_consent, stream, dead_letter, transport,
                 last_append, masking>>

\* one turn of the loop of consume_events, lines 216-253
Consume ==
  /\ consumer.pc = "running"
  /\ consumer.next <= Len(stream)
  /\ LET message == stream[consumer.next]
         hs == consumer.event_handlers[message.event_type]
     IN IF ~Parses(message)
        THEN /\ consumer' = message_failed(consumer)
             /\ dead_letter' = dead_letter
        ELSE \E throws \in [1..Len(hs) -> BOOLEAN], delivered \in BOOLEAN :
               LET out == CallHandlers(ParsedEvent(message), hs, 1, throws, now, delivered,
                                       [dispatched |-> consumer.dispatched,
                                        dead_letter |-> dead_letter,
                                        raised |-> FALSE])
                   handled == [consumer EXCEPT !.dispatched = out.dispatched]
               IN /\ consumer' = IF out.raised THEN message_failed(handled)
                                 ELSE message_done(handled)
                  /\ dead_letter' = out.dead_letter
  /\ UNCHANGED <<runs, sent, consents, audit_logs, now, last_check, last_consent, stream, transport,
                 last_append, masking>>

NextConsume ==
  \/ RegisterHandler
  \/ Arrive
  \/ StartConsume
  \/ Consume

SpecConsume == InitConsume /\ [][NextConsume]_vars

\* ------------------------------------- the consumer loop and its other exits

\* KeyboardInterrupt while the loop waits for a message: caught at line 255,
\* the finally closes the consumer and consume_events returns
Interrupt ==
  /\ consumer.pc = "running"
  /\ consumer' = [consumer EXCEPT !.pc = "interrupted", !.open = FALSE]
  /\ UNCHANGED <<runs, sent, consents, audit_logs, now, last_check, last_consent, stream,
                 dead_letter, transport, last_append, masking>>

\* the iteration of line 216 raises (the broker is lost, or the bytes of a
\* message are not JSON and the value_deserializer fails): outside the inner
\* try, so the exception leaves consume_events through the finally
IteratorRaises ==
  /\ consumer.pc = "running"
  /\ consumer' = [consumer EXCEPT !.pc = "raised", !.open = FALSE]
  /\ UNCHANGED <<runs, sent, consents, audit_logs, now, last_check, last_consent, stream,
                 dead_letter, transport, last_append, masking>>

NextExit ==
  \/ RegisterHandler
  \/ Arrive
  \/ StartConsume
  \/ Consume
  \/ Interrupt
  \/ IteratorRaises

SpecExit == InitConsume /\ [][NextExit]_vars

\* ------------------------------------- the consumer with the pipeline handlers

\* EventOrchestrator.setup_pipeline_handlers
SetupPipelineHandlers ==
  /\ consumer.pc = "idle"
  /\ Registered(consumer) = {}
  /\ consumer' = [consumer EXCEPT
                    !.event_handlers = [t \in EventType |-> @[t] \o pipeline_handlers[t]]]
  /\ UNCHANGED <<runs, sent, consents, audit_logs, now, last_check, last_consent, stream,
                 dead_letter, transport, last_append, masking>>

\* the broker hands a message to the consumer: an event not seen before, or
\* once more an event it has handed over already (delivery is at-least-once)
Deliver ==
  /\ consumer.pc = "idle"
  /\ Len(stream) < MaxStream
  /\ \/ \E t \in PipelineTypes, data \in PipelineData :
          stream' = Append(stream, [event_id |-> Len(stream) + 1, event_type |-> t,
                                    complete |-> TRUE, data |-> data,
                                    correlation_id |-> <<"CORR", 1>>])
     \/ \E i \in DOMAIN stream : stream' = Append(stream, stream[i])
  /\ UNCHANGED <<runs, sent, consents, audit_logs, now, last_check, last_consent, consumer,
                 dead_letter, transport, last_append, masking>>

\* one turn of the loop of consume_events with the pipeline handlers
ConsumePipeline ==
  /\ consumer.pc = "running"
  /\ consumer.next <= Len(stream)
  /\ LET message == stream[consumer.next]
         hs == consumer.event_handlers[message.event_type]
     IN \E broker \in BrokerOutcomes :
          LET out == CallPipelineHandlers(PipelineEvent(message), hs, 1, broker,
                                          [dispatched |-> consumer.dispatched,
                                           log |-> transport.log])
          IN /\ consumer' = message_done([consumer EXCEPT !.dispatched = out.dispatched])
             /\ transport' = [transport EXCEPT !.log = out.log]
  /\ UNCHANGED <<runs, sent, consents, audit_logs, now, last_check, last_consent, stream,
                 dead_letter, last_append, masking>>

NextPipeline ==
  \/ SetupPipelineHandlers
  \/ Deliver
  \/ StartConsume
  \/ ConsumePipeline

SpecPipeline == InitConsume /\ [][NextPipeline]_vars

\* ------------------------------------- the cascade of the pipeline handlers

\* one event, of any type, reaches the subscribed topics
DeliverRoot ==
  /\ stream = <<>>
  /\ \E t \in EventType, data \in PipelineData :
       stream' = <<[event_id |-> 0, event_type |-> t, complete |-> TRUE,
                    data |-> data, correlation_id |-> <<"CORR", 1>>]>>
  /\ UNCHANGED <<runs, sent, consents, audit_logs, now, last_check, last_consent, consumer,
                 dead_letter, transport, last_append, masking>>

\* an event the handlers published and the broker accepted reaches the
\* consumer, which is subscribed to the topics of the pipeline
Relay ==
  /\ Len(stream) < MaxCascade
  /\ \E k \in DOMAIN transport.log :
       /\ transport.log[k].acked
       /\ \A i \in DOMAIN stream : stream[i].event_id # transport.log[k].event_id
       /\ stream' = Append(stream, [event_id |-> transport.log[k].event_id,
                                    event_type |-> transport.log[k].event_type,
                                    complete |-> TRUE,
                                    data |-> transport.log[k].data,
                                    correlation_id |-> transport.log[k].correlation_id])
  /\ UNCHANGED <<runs, sent, consents, audit_logs, now, last_check, last_consent, consumer,
                 dead_letter, transport, last_append, masking>>

NextCascade ==
  \/ SetupPipelineHandlers
  \/ DeliverRoot
  \/ Relay
  \/ StartConsume
  \/ ConsumePipeline

SpecCascade == InitConsume /\ [][NextCascade]_vars

\* ------------------------------------ the audit log, written to directly too

\* the actions a caller of create_audit_log names, and the scope asked of the
\* gate
AuditActions == {"ACCESS_GRANTED", "EXPORT"}
AuditScopes == {{"full_access"}}

\* a call of create_audit_log made by a caller of the privacy manager, for
\* every answer of the database
CreateAuditLog ==
  /\ Len(audit_logs) < MaxAudit
  /\ \E action \in AuditActions, db_ok \in BOOLEAN :
       LET a == create_audit_log(audit_logs, now, User, action, Patient, Patient,
                                 "full", TRUE, <<>>, db_ok)
       IN /\ audit_logs' = a.log
          /\ last_append' = [called |-> TRUE, action |-> action, t |-> now,
                             db_ok |-> db_ok, raised |-> a.raised,
                             log_id |-> a.log_id]
  /\ UNCHANGED <<runs, sent, consents, now, last_check, last_consent, stream, consumer,
                 dead_letter, transport, masking>>

\* a call of check_consent on the one purpose of the gate
CheckGateConsent ==
  /\ \E purpose \in Purposes, scope \in AuditScopes, read_ok \in BOOLEAN :
     \E row \in get_consent(consents, Patient, Organization, purpose, read_ok) :
     \E update_ok \in UpdateOutcomes(consents, now, row) :
       consents' = check_consent(consents, now, row, scope, update_ok).consents
  /\ UNCHANGED <<runs, sent, audit_logs, now, last_check, last_consent, stream, consumer,
                 dead_letter, transport, last_append, masking>>

\* a call of check_access, for every answer of the database; the call leaves
\* its trace in the stores alone
CheckAccessAudited ==
  /\ Len(audit_logs) < MaxAudit
  /\ \E purpose \in Purposes, scope \in AuditScopes, read_ok, audit_ok \in BOOLEAN :
     \E row \in get_consent(consents, Patient, Organization, purpose, read_ok) :
     \E update_ok \in UpdateOutcomes(consents, now, row) :
       LET ca == check_access(consents, audit_logs, now, User, Patient, scope, row,
                              update_ok, audit_ok)
       IN /\ consents' = ca.consents
          /\ audit_logs' = ca.audit_logs
  /\ UNCHANGED <<runs, sent, now, last_check, last_consent, stream, consumer,
                 dead_letter, transport, last_append, masking>>

NextAudit ==
  \/ CreateConsent
  \/ RevokeConsent
  \/ CheckGateConsent
  \/ CheckAccessAudited
  \/ CreateAuditLog
  \/ Tick

SpecAudit == InitGate /\ [][NextAudit]_vars

\* --------------------------------------------- mask_phi_data, called directly

\* mask_phi_data is called with a record and an access level
InitMask ==
  /\ runs = [r \in Runs |-> IdleRun]
  /\ sent = [r \in Runs |-> <<>>]
  /\ consents = <<>>
  /\ audit_logs = <<>>
  /\ now = 0
  /\ last_check = NoCheck
  /\ last_consent = NoConsentCheck
  /\ stream = <<>>
  /\ consumer = NewConsumer
  /\ dead_letter = <<>>
  /\ transport = NoTransport
  /\ last_append = NoAppend
  /\ \E data \in Records, access_level \in DataAccessLevel :
       masking = [pc |-> "called", data |-> data, access_level |-> access_level,
                  masked |-> <<>>, caller_data |-> data]

\* mask_phi_data returns
Mask ==
  /\ masking.pc = "called"
  /\ LET call == mask_phi_data_effect(masking.data, masking.access_level)
     IN masking' = [masking EXCEPT !.pc = "returned",
                                   !.masked = call.ret,
                                   !.caller_data = call.caller_data]
  /\ UNCHANGED <<runs, sent, consents, audit_logs, now, last_check, last_consent, stream,
                 consumer, dead_letter, transport, last_append>>

NextMask == Mask

SpecMask == InitMask /\ [][NextMask]_vars

\* ------------------------------- revocation, the gate and a run on one store

\* the events of a process_document call that has come to its privacy check,
\* all of them acknowledged
SentAtPrivacy ==
  LET cid == <<"CORR", 1>>
      s1 == publish_event(<<>>, "document.received", [document_type |-> "doc"],
                          "ocr_processor", cid, None, "ack").log
      s2 == publish_event(s1, "ocr.completed", [document_type |-> "doc"],
                          "ocr_processor", cid, None, "ack").log
      s3 == publish_event(s2, "entity.extracted", [entities_count |-> 1],
                          "entity_extractor", cid, None, "ack").log
      s4 == publish_event(s3, "anomaly.detected",
                          [is_anomaly |-> FALSE, anomaly_type |-> "NONE"],
                          "anomaly_detector", cid, None, "ack").log
  IN publish_event(s4, "fhir.converted", [resource_type |-> "Claim"],
                   "fhir_mapper", cid, None, "ack").log

\* the call itself: four stages recorded, the privacy check is next
RunAtPrivacy ==
  [IdleRun EXCEPT
     !.pc = "privacy",
     !.correlation_id = <<"CORR", 1>>,
     !.document_id = <<"DOC", 1>>,
     !.status = "processing",
     !.steps = <<StepEntry("ocr", [document_type |-> "doc"]),
                 StepEntry("entity_extraction", [entities_count |-> 1]),
                 StepEntry("anomaly_detection",
                           [is_anomaly |-> FALSE, anomaly_type |-> "NONE"]),
                 StepEntry("fhir_conversion", [resource_type |-> "Claim"])>>,
     !.anomaly_result = [is_anomaly |-> FALSE, anomaly_type |-> "NONE"],
     !.fhir_calls = 1]

\* an empty store, and run 1 about to make its privacy check
InitRevoke ==
  /\ runs = [r \in Runs |-> IF r = 1 THEN RunAtPrivacy ELSE IdleRun]
  /\ sent = [r \in Runs |-> IF r = 1 THEN SentAtPrivacy ELSE <<>>]
  /\ consents = <<>>
  /\ audit_logs = <<>>
  /\ now = 0
  /\ last_check = NoCheck
  /\ last_consent = NoConsentCheck
  /\ stream = <<>>
  /\ consumer = NewConsumer
  /\ dead_letter = <<>>
  /\ transport = NoTransport
  /\ last_append = NoAppend
  /\ masking = NoMasking

\* the call the orchestrator's privacy check makes, made by another caller
CheckAccessFull == AccessCheck(AuditScopes)

\* no process_document call is between its privacy check and its return. The
\* awaited steps never suspend, so the thread makes no other call of the
\* privacy manager in between; the steps before the privacy check do not
\* touch the store.
Quiet == \A r \in Runs : runs[r].pc \in {"idle", "privacy", "returned", "escaped"}

\* the operations of the privacy manager called before the run makes its
\* privacy check and after it has returned, and the rest of the run
NextRevoke ==
  \/ Quiet /\ CreateConsent
  \/ Quiet /\ RevokeConsent
  \/ Quiet /\ CheckAccessFull
  \/ Quiet /\ Tick
  \/ \E r \in Runs : StepPrivacy(r)
  \/ \E r \in Runs : RecordPrivacy(r)
  \/ \E r \in Runs : StepHub(r)
  \/ \E r \in Runs : RecordHub(r)
  \/ \E r \in Runs : HandleException(r)

SpecRevoke == InitRevoke /\ [][NextRevoke]_vars

\* ------------------------------------------------------------------ claims

FinalStatuses == {"completed", "failed", "manual_review_required", "access_denied"}

\* the publish_event calls of run r for one event type
EventsOfType(r, event_type) ==
  {i \in DOMAIN sent[r] : sent[r][i].event_type = event_type}

StepKeys(r) == [i \in DOMAIN runs[r].steps |-> runs[r].steps[i].name]

\* C1: the run handed back by process_document has one of the four final
\* statuses, never 'processing', and no step changes a run once it is returned
C1_ReturnedRunIsFinal ==
  /\ [](\A r \in Runs : runs[r].pc = "returned" => runs[r].status \in FinalStatuses)
  /\ [][\A r \in Runs : runs[r].pc = "returned" => runs'[r] = runs[r]]_vars

C1_Witness ==
  \E r \in Runs :
    /\ runs[r].pc = "returned"
    /\ runs[r].status = "manual_review_required"
    /\ \E i \in DOMAIN sent[r] : ~sent[r][i].acked

\* C2: no call of process_document ends with an exception leaving it, whatever
\* fails, the publish of the error event included
C2_NoExceptionEscapes == \A r \in Runs : runs[r].pc # "escaped"

C2_Witness ==
  \E r \in Runs :
    /\ runs[r].pc = "returned"
    /\ runs[r].status = "failed"
    /\ \E i \in EventsOfType(r, "error.occurred") : ~sent[r][i].acked

\* C3: once the anomaly collaborator has reported is_anomaly = true, the run
\* never records or executes the conversion, the privacy check or the hub
\* update, publishes none of their events, and is returned for manual review
\* with the anomaly type as its reason
C3_AnomalyHalts ==
  \A r \in Runs :
    runs[r].anomaly_result.is_anomaly =>
      /\ runs[r].pc \in {"rec_anomaly", "returned"}
      /\ \A i \in DOMAIN runs[r].steps :
           runs[r].steps[i].name \notin {"fhir_conversion", "privacy_check", "hub_update"}
      /\ runs[r].fhir_calls = 0 /\ runs[r].gate_calls = 0 /\ runs[r].hub_calls = 0
      /\ EventsOfType(r, "fhir.converted") = {}
      /\ EventsOfType(r, "privacy.checked") = {}
      /\ EventsOfType(r, "hub.updated") = {}
      /\ runs[r].pc = "returned" =>
           /\ runs[r].status = "manual_review_required"
           /\ runs[r].review_reason = runs[r].anomaly_result.anomaly_type

C3_Witness ==
  \E r \in Runs :
    /\ runs[r].pc = "returned"
    /\ runs[r].anomaly_result.is_anomaly
    /\ runs[r].review_reason = "ML_DETECTED_ANOMALY"
    /\ audit_logs = <<>>

\* the access gate has answered run r
GateAnswered(r) == runs[r].privacy_result # NoResult

\* C4: once the access gate has answered allowed = false, the run never
\* executes the hub update nor publishes hub.updated, and is returned as
\* access_denied with the reason the gate gave
C4_DenialHalts ==
  \A r \in Runs :
    (GateAnswered(r) /\ ~runs[r].privacy_result.allowed) =>
      /\ runs[r].pc \in {"rec_privacy", "returned"}
      /\ runs[r].hub_calls = 0
      /\ EventsOfType(r, "hub.updated") = {}
      /\ \A i \in DOMAIN runs[r].steps : runs[r].steps[i].name # "hub_update"
      /\ runs[r].pc = "returned" =>
           /\ runs[r].status = "access_denied"
           /\ runs[r].denial_reason = runs[r].privacy_result.reason

C4_Witness ==
  \E r \in Runs :
    /\ runs[r].pc = "returned"
    /\ GateAnswered(r)
    /\ ~runs[r].privacy_result.allowed
    /\ runs[r].denial_reason = "No valid consent found"

\* C9: in every state the keys of a run's step map are a prefix of the
\* pipeline order, and a step never changes or removes an entry already there
C9_StepsInOrder ==
  /\ [](\A r \in Runs :
          /\ Len(runs[r].steps) <= Len(all_steps)
          /\ StepKeys(r) = SubSeq(all_steps, 1, Len(runs[r].steps)))
  /\ [][\A r \in Runs : \A i \in DOMAIN runs[r].steps :
          /\ i <= Len(runs'[r].steps)
          /\ runs'[r].steps[i] = runs[r].steps[i]]_vars

C9_Witness ==
  \E r \in Runs :
    /\ runs[r].pc = "returned"
    /\ runs[r].status = "failed"
    /\ Len(runs[r].steps) = 4

\* C10: a run in which a stage raised is returned as failed with the error
\* message, after exactly one error.occurred publish whose payload names the
\* stage that raised, the message and the run's document id; no such publish
\* is made before the handler runs
C10_FailureReported ==
  \A r \in Runs :
    runs[r].raised_in # "None" =>
      /\ runs[r].pc = "except" => EventsOfType(r, "error.occurred") = {}
      /\ runs[r].pc # "except" =>
           /\ runs[r].status = "failed"
           /\ runs[r].error = runs[r].exc
           /\ Cardinality(EventsOfType(r, "error.occurred")) = 1
           /\ \A i \in EventsOfType(r, "error.occurred") :
                /\ sent[r][i].data.step = runs[r].raised_in
                /\ sent[r][i].data.error = runs[r].exc
                /\ sent[r][i].data.document_id = runs[r].document_id
                /\ i = Len(sent[r])

C10_Witness ==
  \E r \in Runs :
    /\ runs[r].pc = "returned"
    /\ runs[r].raised_in = "privacy_check"
    /\ runs[r].exc = "audit log failed"
\* a step of SpecGate that is a call of check_access
IsCheck == last_check' # last_check \/ audit_logs' # audit_logs

\* the action of the audit entry that goes with a decision
ActionOf(result) == IF result.allowed THEN "ACCESS_GRANTED" ELSE "ACCESS_DENIED"

C6_AuditFailureDenies ==
  (last_check.called /\ last_check.consent_valid /\ ~last_check.audit_ok) =>
    (~last_check.raised /\ ~last_check.result.allowed)

\* the dead-letter entries of the event of one message
DeadLettersOf(msg) ==
  {j \in DOMAIN dead_letter : dead_letter[j].original_event.event_id = msg}

\* C7: an event a handler threw on has exactly one entry in the dead-letter
\* topic, holding the event, the error and a timestamp
C7_OneDeadLetterPerFailure ==
  \A i \in DOMAIN consumer.dispatched :
    consumer.dispatched[i].threw =>
      /\ Cardinality(DeadLettersOf(consumer.dispatched[i].msg)) = 1
      /\ \A j \in DeadLettersOf(consumer.dispatched[i].msg) :
           /\ dead_letter[j].error = "handler error"
           /\ dead_letter[j].timestamp \in Times

\* the calls of handlers made for the message at place i of the stream
CallsFor(i) == {d \in DOMAIN consumer.dispatched : consumer.dispatched[d].msg = i}

\* C8: the loop ends on max_messages alone, and every message it has passed
\* that parses was given to each handler registered for its type, whatever
\* the handlers and the dead-letter sends of that or of earlier messages did
C8_LoopSurvivesFailures ==
  /\ consumer.pc = "closed" =>
       (consumer.max_messages # 0 /\ consumer.message_count >= consumer.max_messages)
  /\ \A i \in 1..(consumer.next - 1) :
       Parses(stream[i]) =>
         Cardinality(CallsFor(i)) = Len(consumer.event_handlers[stream[i].event_type])

C8_Witness ==
  /\ dead_letter = <<>>
  /\ \E d, e \in DOMAIN consumer.dispatched :
       /\ consumer.dispatched[d].threw
       /\ consumer.dispatched[d].msg < consumer.dispatched[e].msg
       /\ ~consumer.dispatched[e].threw

\* a step of SpecConsent that is a call of check_consent
IsConsentCheck == last_consent' # last_consent

\* the rows of the table for the patient, the organization and one purpose
OfTriple(cs, purpose) ==
  {i \in DOMAIN cs : /\ cs[i].patient_id = Patient
                      /\ cs[i].organization_id = Organization
                      /\ cs[i].purpose = purpose}

\* the active rows of a triple and, of them, the one granted last
ActiveOf(cs, purpose) == {i \in OfTriple(cs, purpose) : cs[i].status = "active"}
NewestActive(cs, purpose) ==
  {i \in ActiveOf(cs, purpose) :
     \A j \in ActiveOf(cs, purpose) : cs[j].granted_date <= cs[i].granted_date}

\* a record is not past its expiry at time t and its scope has every item asked
Covers(rec, t, requested_scope) ==
  /\ rec.expiry_date = None \/ t <= rec.expiry_date[1]
  /\ requested_scope \subseteq rec.scope

PastExpiry(rec, t) == rec.expiry_date # None /\ t > rec.expiry_date[1]

C13_OneActivePerTriple ==
  \A purpose \in StorePurposes : Cardinality(ActiveOf(consents, purpose)) <= 1

\* the record of a triple that was granted last, whatever its status
MostRecent(cs, purpose) ==
  {i \in OfTriple(cs, purpose) :
     \A j \in OfTriple(cs, purpose) : cs[j].granted_date <= cs[i].granted_date}

\* C14: a check_consent call made while the most recently granted record of
\* the triple is Revoked or Expired returns false, whatever the older records
\* of the triple are
C14_DecidesOnMostRecent ==
  [][IsConsentCheck =>
       \A i \in MostRecent(consents, last_consent'.purpose) :
         consents[i].status \in {"revoked", "expired"} => ~last_consent'.ret]_vars

\* the field names of the PHI taxonomy, over all its categories
PhiFieldNames ==
  UNION {{phi_fields[c][k] : k \in DOMAIN phi_fields[c]} : c \in DOMAIN phi_fields}

\* C15: a check_access result that allows has access level Full when the
\* requested scope contains full_access and Limited otherwise, and masks every
\* PHI field when the level is not Full and none when it is; a result that
\* denies has access level None
C15_LevelAndMaskFollowScope ==
  (last_check.called /\ ~last_check.raised) =>
    LET res == last_check.result
        masked == {res.masked_fields[k] : k \in DOMAIN res.masked_fields}
    IN /\ res.allowed =>
            /\ res.access_level =
                 (IF "full_access" \in last_check.requested_scope THEN "full" ELSE "limited")
            /\ res.access_level # "full" => masked = PhiFieldNames
            /\ res.access_level = "full" => res.masked_fields = <<>>
       /\ ~res.allowed => res.access_level = "none"

C15_Witness ==
  /\ last_check.called /\ ~last_check.raised /\ last_check.result.allowed
  /\ last_check.requested_scope = {"limited_access"}
  /\ last_check.result.access_level = "limited"
  /\ Len(last_check.result.masked_fields) = 30

\* C16: publish_event returns true only for a send the broker acknowledged
\* within the acknowledgment timeout, the producer resends a record at most
\* `retries` times, a call that ends on a timeout or a broker error returns
\* false, and no call raises
C16_PublishReportsWithoutRaising ==
  /\ transport.attempts <= 1 + retries
  /\ ~transport.raised
  /\ transport.pc = "done" =>
       /\ transport.ret <=> (transport.outcome = "ack" /\ transport.elapsed <= ack_timeout)
       /\ transport.outcome \in {"timeout", "error"} => ~transport.ret
       /\ Len(transport.log) = transport.calls
       /\ transport.log[transport.calls].acked = transport.ret

C16_Witness ==
  /\ transport.pc = "done"
  /\ transport.outcome = "error"
  /\ transport.attempts = 1 + retries
  /\ ~transport.ret

\* C17: after a stage's publish that the broker did not acknowledge the run
\* publishes nothing but the error event, and it is returned as failed
C17_BrokerFailureFailsRun ==
  \A r \in Runs : \A i \in DOMAIN sent[r] :
    (~sent[r][i].acked /\ sent[r][i].event_type # "error.occurred") =>
      /\ \A j \in DOMAIN sent[r] : j > i => sent[r][j].event_type = "error.occurred"
      /\ runs[r].pc = "returned" => runs[r].status = "failed"

\* C18: a run that was cancelled before its hub.updated event was published is
\* handed to the caller with status failed and reason 'cancelled', and a run
\* that completed stays as it is
C18_CancelledRunIsFailed ==
  /\ [](\A r \in Runs :
          runs[r].pc = "cancelled" =>
            (runs[r].status = "failed" /\ runs[r].error = "cancelled"))
  /\ [][\A r \in Runs : runs[r].status = "completed" => runs'[r] = runs[r]]_vars

\* the events of run r all carry the correlation id the run reports
Threaded(r) ==
  \A i \in DOMAIN sent[r] : sent[r][i].correlation_id = runs[r].correlation_id

\* C19, as claimed: every event published for a run carries the id the run
\* reports, which is the caller's id whenever the caller gave one and a
\* generated one when the caller gave None
C19_CorrelationIdThreads ==
  \A r \in Runs :
    runs[r].pc # "idle" =>
      /\ Threaded(r)
      /\ runs[r].correlation_id =
           (IF runs[r].supplied_correlation_id # None
            THEN runs[r].supplied_correlation_id ELSE <<"CORR", r>>)

\* C19, amended: every event published for a run carries the id the run
\* reports, which is the caller's id when the caller gave a non-empty one and
\* a generated one when the caller gave None or the empty string
C19_CorrelationIdThreadsNonEmpty ==
  \A r \in Runs :
    runs[r].pc # "idle" =>
      /\ Threaded(r)
      /\ runs[r].correlation_id # None /\ runs[r].correlation_id # EmptyStr
      /\ runs[r].correlation_id =
           (IF runs[r].supplied_correlation_id \notin {None, EmptyStr}
            THEN runs[r].supplied_correlation_id ELSE <<"CORR", r>>)

C19_Witness ==
  \E r \in Runs :
    /\ runs[r].pc = "returned"
    /\ runs[r].status = "failed"
    /\ runs[r].supplied_correlation_id = <<"caller", 1>>
    /\ EventsOfType(r, "document.received") # {}
    /\ EventsOfType(r, "fhir.converted") # {}
    /\ \E i \in EventsOfType(r, "error.occurred") :
         sent[r][i].correlation_id = <<"caller", 1>>

\* C20: every event published for a run is sent with the run's document id as
\* its partition key
C20_KeyedByDocumentId ==
  \A r \in Runs : \A i \in DOMAIN sent[r] :
    sent[r][i].partition_key = runs[r].document_id

\* the event types of a run without failure, in the order of the stages
stage_events ==
  <<"document.received", "ocr.completed", "entity.extracted", "anomaly.detected",
    "fhir.converted", "privacy.checked", "hub.updated">>

\* the event types of the publish_event calls of run r, in the order made
IssuedTypes(r) == [i \in DOMAIN sent[r] |-> sent[r][i].event_type]

IsPrefix(s, t) == Len(s) <= Len(t) /\ s = SubSeq(t, 1, Len(s))

\* the place of an event type in the order of the stages
Rank(event_type) ==
  IF event_type = "error.occurred" THEN Len(stage_events) + 1
  ELSE CHOOSE k \in DOMAIN stage_events : stage_events[k] = event_type

\* C21: the event types a run has issued are a prefix of the stage order,
\* followed by at most one error.occurred, and the events the broker accepted
\* are in stage order as well
C21_EventsInStageOrder ==
  \A r \in Runs :
    LET issued == IssuedTypes(r)
        n == Len(issued)
    IN /\ \/ IsPrefix(issued, stage_events)
          \/ /\ n > 0
             /\ issued[n] = "error.occurred"
             /\ IsPrefix(SubSeq(issued, 1, n - 1), stage_events)
       /\ \A i, j \in DOMAIN sent[r] :
            (i < j /\ sent[r][i].acked /\ sent[r][j].acked) =>
              Rank(issued[i]) < Rank(issued[j])

C21_Witness ==
  \E r \in Runs :
    /\ runs[r].pc = "returned"
    /\ runs[r].status = "failed"
    /\ Len(sent[r]) = 6
    /\ sent[r][6].event_type = "error.occurred"
    /\ ~sent[r][2].acked

\* the stage whose completion a type of event reports
StageOf(event_type) ==
  CASE event_type = "ocr.completed" -> "ocr"
    [] event_type = "entity.extracted" -> "entity_extraction"
    [] event_type = "anomaly.detected" -> "anomaly_detection"
    [] event_type = "fhir.converted" -> "fhir_conversion"
    [] event_type = "privacy.checked" -> "privacy_check"
    [] event_type = "hub.updated" -> "hub_update"
    [] OTHER -> "none"

\* C22: whenever a run has published the completion event of a stage, the
\* run's step map holds the entry of that stage
C22_RecordedBeforePublished ==
  \A r \in Runs : \A i \in DOMAIN sent[r] :
    StageOf(sent[r][i].event_type) # "none" =>
      \E k \in DOMAIN runs[r].steps :
        runs[r].steps[k].name = StageOf(sent[r][i].event_type)

\* C23: a run returned for manual review has an anomaly.detected event with
\* its correlation id and is_anomaly = true that the broker accepted
C23_ManualReviewObservable ==
  \A r \in Runs :
    (runs[r].pc = "returned" /\ runs[r].status = "manual_review_required") =>
      \E i \in EventsOfType(r, "anomaly.detected") :
        /\ sent[r][i].acked
        /\ sent[r][i].correlation_id = runs[r].correlation_id
        /\ sent[r][i].data.is_anomaly

\* the handlers called for the message at place i of the stream, in the order
\* called
HandlersCalledFor(i) ==
  LET calls == SelectSeq(consumer.dispatched, LAMBDA d : d.msg = i)
  IN [k \in DOMAIN calls |-> calls[k].handler]

\* the handlers registered for a type, as a set
RegisteredFor(event_type) ==
  {consumer.event_handlers[event_type][k] : k \in DOMAIN consumer.event_handlers[event_type]}

\* C24, as claimed: for every parsed message the loop has passed, each handler
\* registered for its type was called exactly once, and no other handler
C24_OncePerHandler ==
  \A i \in 1..(consumer.next - 1) :
    Parses(stream[i]) =>
      /\ \A h \in RegisteredFor(stream[i].event_type) :
           Cardinality({d \in CallsFor(i) : consumer.dispatched[d].handler = h}) = 1
      /\ \A d \in CallsFor(i) :
           consumer.dispatched[d].handler \in RegisteredFor(stream[i].event_type)

\* C24, amended: for every parsed message the loop has passed, the handlers
\* called for it are the registrations of its type, one call per registration
\* and in the order registered, whichever of them threw; a handler registered
\* twice for the type is called twice
C24_OncePerRegistration ==
  \A i \in 1..(consumer.next - 1) :
    Parses(stream[i]) =>
      HandlersCalledFor(i) = consumer.event_handlers[stream[i].event_type]

C24_Witness ==
  \E i \in 1..(consumer.next - 1) :
    /\ Parses(stream[i])
    /\ consumer.event_handlers[stream[i].event_type] = <<"h2", "h1">>
    /\ HandlersCalledFor(i) = <<"h2", "h1">>
    /\ \E d \in CallsFor(i) :
         consumer.dispatched[d].handler = "h2" /\ consumer.dispatched[d].threw

\* C25: a pipeline handler called again for an event it was called for before
\* publishes no further downstream event
C25_HandlersIdempotent ==
  \A d, e \in DOMAIN consumer.dispatched :
    (d < e /\ consumer.dispatched[d].msg = consumer.dispatched[e].msg
           /\ consumer.dispatched[d].handler = consumer.dispatched[e].handler) =>
      consumer.dispatched[e].published = {}

\* what run r wrote to its result of values that name a run
OwnValues(r) ==
  /\ runs[r].document_id = <<"DOC", r>>
  /\ runs[r].correlation_id \in {runs[r].supplied_correlation_id, <<"CORR", r>>}
  /\ \A k \in DOMAIN runs[r].steps :
       LET entry == runs[r].steps[k]
       IN /\ entry.name = "hub_update" => entry.detail.hub_record_id = <<"HUB", r>>
          /\ entry.name = "anomaly_detection" => entry.detail = runs[r].anomaly_result
          /\ entry.name = "privacy_check" =>
               /\ entry.detail.access_allowed = runs[r].privacy_result.allowed
               /\ entry.detail.audit_log_id = runs[r].privacy_result.audit_log_id
  /\ runs[r].status = "manual_review_required" => runs[r].anomaly_result.is_anomaly
  /\ runs[r].status = "access_denied" => ~runs[r].privacy_result.allowed
  /\ runs[r].status = "failed" => runs[r].raised_in # "None"
  /\ runs[r].status = "completed" => Len(runs[r].steps) = Len(all_steps)

\* C26: with two calls whose steps interleave in every way, a step of one call
\* leaves the run and the events of the other call as they were, and the step
\* map, status and ids of each run hold what that run's own stages produced,
\* in the order of the stages
C26_RunsDoNotShareState ==
  /\ [][\A r, q \in ConcurrentRuns :
          (r # q /\ (runs'[r] # runs[r] \/ sent'[r] # sent[r])) =>
            (runs'[q] = runs[q] /\ sent'[q] = sent[q])]_vars
  /\ [](\A r \in ConcurrentRuns :
          runs[r].pc # "idle" =>
            /\ OwnValues(r)
            /\ [i \in DOMAIN runs[r].steps |-> runs[r].steps[i].name]
                 = SubSeq(all_steps, 1, Len(runs[r].steps)))

C26_Witness ==
  /\ runs[1].pc = "hub" /\ ~runs[1].anomaly_result.is_anomaly
  /\ runs[2].pc = "rec_anomaly" /\ runs[2].anomaly_result.is_anomaly
  /\ runs[1].correlation_id = runs[2].correlation_id
  /\ Len(runs[1].steps) = 5 /\ Len(runs[2].steps) = 2

\* C27: the audit log is append-only: whatever operation of the privacy
\* manager runs (create_consent, revoke_consent, check_consent, check_access,
\* create_audit_log), every entry that was in the log before the step is
\* still there after it, at its place and unchanged
C27_AuditLogAppendOnly ==
  [][/\ Len(audit_logs') >= Len(audit_logs)
     /\ \A i \in DOMAIN audit_logs : audit_logs'[i] = audit_logs[i]]_vars

C27_Witness ==
  /\ Len(audit_logs) = 2
  /\ audit_logs[1].action = "EXPORT" /\ audit_logs[1].timestamp = 0
  /\ audit_logs[2].action = "ACCESS_DENIED" /\ audit_logs[2].timestamp > 0
  /\ \E i \in DOMAIN consents : consents[i].status = "revoked"
  /\ last_append.called /\ last_append.raised

\* C28: a create_audit_log call that reaches the database adds an entry and
\* is not rejected, also when it repeats the (user, action, resource) of an
\* earlier call at the same timestamp
C28_RepeatedAppendAdds ==
  (last_append.called /\ last_append.db_ok) => ~last_append.raised

\* C29: mask_phi_data called with the level None returns a record in which
\* every field of the input whose name is in the PHI taxonomy holds the token
\* '***REDACTED***', whatever the field held
C29_NoneRedactsEveryPhiField ==
  (masking.pc = "returned" /\ masking.access_level = "none") =>
    /\ DOMAIN masking.masked = DOMAIN masking.data
    /\ \A f \in DOMAIN masking.data :
         f \in PhiFieldNames => masking.masked[f] = REDACTED

C29_Witness ==
  /\ masking.pc = "returned" /\ masking.access_level = "none"
  /\ DOMAIN masking.data = FieldNames
  /\ masking.data["ssn"] = Number(12345)
  /\ masking.data["account_number"] = None
  /\ masking.data["city"] # None
  /\ masking.masked["city"] = REDACTED
  /\ masking.masked["SSN"] = masking.data["SSN"]
  /\ masking.masked["patient"] = Nested

\* a field value that is a string
IsStr(value) == value # None /\ value[1] = "str"

\* C30: mask_phi_data called with the level Limited turns the string of n > 4
\* characters of a PHI field into a string of n characters that begins and
\* ends with the two characters the original begins and ends with and has the
\* mask character at the n - 4 places between, and turns a string of at most
\* 4 characters into '***'
C30_LimitedKeepsEnds ==
  (masking.pc = "returned" /\ masking.access_level = "limited") =>
    \A f \in DOMAIN masking.data :
      (f \in PhiFieldNames /\ IsStr(masking.data[f])) =>
        LET value == masking.data[f][2]
            n == Len(value)
            masked == masking.masked[f]
        IN /\ IsStr(masked)
           /\ IF n > 4
              THEN /\ Len(masked[2]) = n
                   /\ \A i \in {1, 2, n - 1, n} : masked[2][i] = value[i]
                   /\ \A i \in 3..(n - 2) : masked[2][i] = "*"
              ELSE masked[2] = <<"*", "*", "*">>

C30_Witness ==
  /\ masking.pc = "returned" /\ masking.access_level = "limited"
  /\ "ssn" \in DOMAIN masking.data /\ "account_number" \in DOMAIN masking.data
  /\ masking.data["ssn"] = Str(<<"a", "b", "c", "d", "e">>)
  /\ masking.data["account_number"] = Str(<<"a", "b", "c", "d">>)
  /\ masking.masked["ssn"] = Str(<<"a", "b", "*", "d", "e">>)
  /\ masking.masked["account_number"] = Str(<<"*", "*", "*">>)

\* C31: mask_phi_data called with the level Full returns the record as it
\* was given, and with any level it returns a record with the keys of the
\* input in which every field outside the PHI taxonomy holds what it held,
\* and leaves the caller's record as it was
C31_MaskLeavesTheRest ==
  masking.pc = "returned" =>
    /\ masking.access_level = "full" => masking.masked = masking.data
    /\ DOMAIN masking.masked = DOMAIN masking.data
    /\ \A f \in DOMAIN masking.data \ PhiFieldNames :
         masking.masked[f] = masking.data[f]
    /\ masking.caller_data = masking.data

C31_Witness ==
  /\ masking.pc = "returned" /\ masking.access_level = "limited"
  /\ DOMAIN masking.data = FieldNames
  /\ masking.data["ssn"] = Str(Text(MaxLen))
  /\ masking.masked["ssn"] # masking.data["ssn"]
  /\ masking.masked["patient"] = Nested
  /\ masking.masked["SSN"] = Str(Text(MaxLen))
  /\ masking.caller_data["ssn"] = Str(Text(MaxLen))

HubUpdates(r) == {i \in DOMAIN sent[r] : sent[r][i].event_type = "hub.updated"}

\* C34: a run that has issued hub.updated, or called the hub update at all,
\* holds a check_access result that allows, and the ACCESS_GRANTED entry of
\* that result is in the audit log; a run whose privacy step raised has not
\* called the hub update
C34_NoHubWithoutAudit ==
  \A r \in Runs :
    /\ (HubUpdates(r) # {} \/ runs[r].hub_calls > 0) =>
         /\ runs[r].privacy_result.allowed
         /\ \E k \in DOMAIN audit_logs :
              /\ audit_logs[k].log_id = runs[r].privacy_result.audit_log_id
              /\ audit_logs[k].action = "ACCESS_GRANTED"
              /\ audit_logs[k].success
    /\ runs[r].raised_in = "privacy_check" =>
         (HubUpdates(r) = {} /\ runs[r].hub_calls = 0)

C34_Witness ==
  \E r \in Runs :
    /\ runs[r].pc = "returned" /\ runs[r].status = "completed"
    /\ HubUpdates(r) # {}
    /\ \E i \in HubUpdates(r) : sent[r][i].acked
    /\ Len(audit_logs) = 1
    /\ audit_logs[1].action = "ACCESS_GRANTED"

\* the triple of the orchestrator's check has a revoked record and no Active
\* one: the Active record was revoked and no consent was created since
Revoked(cs) ==
  /\ ActiveOf(cs, "treatment") = {}
  /\ \E i \in OfTriple(cs, "treatment") : cs[i].status = "revoked"

\* run r makes its privacy check in this step
ChecksPrivacy(r) == runs[r].pc = "privacy" /\ runs'[r].pc # "privacy"

\* C35, as claimed: while the triple is revoked, the check_consent of every
\* check_access call returns false and the call returns a denial, and a run
\* that makes its privacy check gets a denial, which ends it access_denied
\* with no hub update
C35_RevokedDenies ==
  [][/\ (Revoked(consents) /\ last_check' # last_check) =>
          /\ ~last_check'.consent_valid
          /\ ~last_check'.raised
          /\ ~last_check'.result.allowed
     /\ \A r \in Runs :
          /\ (Revoked(consents) /\ ChecksPrivacy(r)) =>
               /\ runs'[r].pc = "rec_privacy"
               /\ ~runs'[r].privacy_result.allowed
          /\ (runs[r].pc = "rec_privacy" /\ ~runs[r].privacy_result.allowed
                /\ runs'[r] # runs[r]) =>
               /\ runs'[r].pc = "returned"
               /\ runs'[r].status = "access_denied"
               /\ runs'[r].hub_calls = 0 /\ HubUpdates(r) = {}]_vars

\* the error.occurred events run r has issued
ErrorEvents(r) == {i \in DOMAIN sent[r] : sent[r][i].event_type = "error.occurred"}

\* C36: a run has issued an error.occurred event exactly when its status is
\* failed, and never more than one; a run that returned access_denied issued,
\* as its last event, a privacy.checked event with access_allowed = false
C36_ErrorEventIffFailed ==
  \A r \in Runs :
    /\ (ErrorEvents(r) # {}) <=> (runs[r].status = "failed")
    /\ Cardinality(ErrorEvents(r)) <= 1
    /\ (runs[r].pc = "returned" /\ runs[r].status = "access_denied") =>
         LET last == sent[r][Len(sent[r])]
         IN /\ last.event_type = "privacy.checked"
            /\ ~last.data.access_allowed

C36_Witness ==
  \E r \in Runs :
    /\ runs[r].pc = "returned" /\ runs[r].status = "failed"
    /\ runs[r].raised_in = "privacy_check"
    /\ ErrorEvents(r) = {Len(sent[r])}
    /\ sent[r][Len(sent[r]) - 1].event_type = "fhir.converted"

\* the patient has given the organization consent for 'treatment', and none
\* with full_access in its scope
LacksFullAccess(cs) ==
  /\ OfTriple(cs, "treatment") # {}
  /\ \A i \in OfTriple(cs, "treatment") : "full_access" \notin cs[i].scope

\* C37: a run calls the hub update only on a check_access result with access
\* level Full, and a run that made its privacy check while the patient had no
\* treatment consent with full_access has ended access_denied when it returns
C37_OnlyFullReachesHub ==
  \A r \in Runs :
    /\ runs[r].hub_calls > 0 =>
         /\ runs[r].privacy_result.allowed
         /\ runs[r].privacy_result.access_level = "full"
    /\ (runs[r].gate_calls > 0 /\ runs[r].pc = "returned"
          /\ LacksFullAccess(consents)) =>
         runs[r].status = "access_denied"

\* the stage that follows an event type in the pipeline
NextStage(event_type) ==
  CASE event_type = "ocr.completed" -> "entity.extracted"
    [] event_type = "entity.extracted" -> "anomaly.detected"
    [] event_type = "anomaly.detected" -> "fhir.converted"
    [] event_type = "fhir.converted" -> "privacy.checked"
    [] event_type = "privacy.checked" -> "hub.updated"
    [] OTHER -> "none"

\* the consumed message a handler was called for
MessageOf(call) ==
  stream[CHOOSE i \in DOMAIN stream : stream[i].event_id = call.msg]

\* C38: in the cascade set off by one event, every call of a pipeline handler
\* publishes at most one event, of the stage after the event it was called
\* for; fhir.converted only for an anomaly.detected event whose is_anomaly is
\* not true, hub.updated only for a privacy.checked event whose access_allowed
\* is true; no handler is called for hub.updated or error.occurred; every
\* event published is one handler's, and at most five are published in all
C38_CascadeIsGatedAndShort ==
  /\ \A i \in DOMAIN consumer.dispatched :
       LET call == consumer.dispatched[i]
           m == MessageOf(call)
       IN /\ Cardinality(call.published) <= 1
          /\ m.event_type \notin {"hub.updated", "error.occurred"}
          /\ \A k \in call.published :
               LET e == transport.log[k]
               IN /\ e.event_type = NextStage(m.event_type)
                  /\ e.event_type = "fhir.converted" =>
                       m.event_type = "anomaly.detected" /\ ~Truthy(m.data, "is_anomaly")
                  /\ e.event_type = "hub.updated" =>
                       m.event_type = "privacy.checked" /\ Truthy(m.data, "access_allowed")
  /\ \A k \in DOMAIN transport.log :
       \E i \in DOMAIN consumer.dispatched : k \in consumer.dispatched[i].published
  /\ Len(transport.log) <= 5

\* an entity.extracted event ran through every stage: four further events,
\* the last one hub.updated, which was consumed and set off nothing
C38_Witness ==
  /\ stream # <<>>
  /\ stream[1].event_type = "entity.extracted"
  /\ Len(transport.log) = 4
  /\ \E i \in DOMAIN stream :
       /\ stream[i].event_type = "hub.updated"
       /\ consumer.next > i
  /\ \E i \in DOMAIN stream :
       stream[i].event_type = "anomaly.detected" /\ ~Truthy(stream[i].data, "is_anomaly")

\* the messages the loop has passed that parsed
ParsedSoFar == {i \in 1..(consumer.next - 1) : Parses(stream[i])}

\* C39: a message that does not parse gets no handler call and no dead-letter
\* entry and is not counted; the count is the number of parsed messages
\* passed; the loop goes on after such a message, ending on max_messages only
\* with a parsed one; once max_messages parsed messages were handled the loop
\* is over; and the consumer is open while the loop runs and closed however
\* consume_events was left
C39_UnparsableSkipped ==
  /\ \A i \in 1..(consumer.next - 1) :
       ~Parses(stream[i]) =>
         /\ CallsFor(i) = {}
         /\ \A d \in DOMAIN dead_letter : dead_letter[d].original_event.event_id # i
  /\ consumer.message_count = Cardinality(ParsedSoFar)
  /\ consumer.pc = "closed" =>
       /\ consumer.next - 1 \in ParsedSoFar
       /\ consumer.message_count = consumer.max_messages
  /\ (consumer.max_messages # 0 /\ Cardinality(ParsedSoFar) >= consumer.max_messages) =>
       consumer.pc # "running"
  /\ consumer.open <=> consumer.pc = "running"

\* the loop went on past a message that does not parse to one that does, and
\* ended on max_messages with the consumer closed
C39_Witness ==
  /\ consumer.pc = "closed"
  /\ ~consumer.open
  /\ consumer.next - 1 > consumer.max_messages
  /\ \E i \in 1..(consumer.next - 1) :
       /\ ~Parses(stream[i])
       /\ i + 1 \in ParsedSoFar
       /\ CallsFor(i + 1) # {}

\* a check_access step whose lookup came back empty although the triple has an
\* Active record (the query failed), or whose Expired update failed
StoreFailed ==
  /\ last_check' # last_check
  /\ \/ /\ last_check'.row = 0
        /\ ActiveOf(consents, last_check'.purpose) # {}
     \/ ~last_check'.update_ok

\* C40: a check_access call in which the lookup of the consent or the Expired
\* update fails finds no valid consent and returns a result with allowed = false
C40_StoreFailureDenies ==
  [][StoreFailed =>
       /\ ~last_check'.consent_valid
       /\ ~last_check'.raised
       /\ ~last_check'.result.allowed]_vars
====
